---- MODULE Spec2Model ----
(***************************************************************************)
(* Model of the agentic turn loop of ida-chat (ida_chat_core.py):          *)
(* IDAChatCore.process_message and _process_single_response, driven by an  *)
(* agent transport whose response stream is chosen nondeterministically,   *)
(* a script executor whose outcome is chosen nondeterministically, and a   *)
(* second thread that may call request_cancel at any moment.               *)
(*                                                                         *)
(* Strings are sequences of tokens.  The two delimiters of                 *)
(* IDASCRIPT_PATTERN are one token each, a fixed phrase of the source is   *)
(* one token, every other token is one character.                          *)
(***************************************************************************)
EXTENDS Naturals, Sequences, FiniteSets, TLC

\* ------------------------------------------------------------------------
\* Bounds of the model
\* ------------------------------------------------------------------------
MaxTurnsCap == 2      \* max_turns is drawn from 0..MaxTurnsCap
MaxBlocks == 2        \* content blocks per response stream
MaxMessages == 2      \* messages sent to the plugin worker

\* ------------------------------------------------------------------------
\* Text
\* ------------------------------------------------------------------------
OPEN == "<idascript>"
CLOSE == "</idascript>"
WS == {" ", "\n"}

ToStr(n) ==
    CASE n = 0 -> "0" [] n = 1 -> "1" [] n = 2 -> "2" [] n = 3 -> "3"
      [] n = 4 -> "4" [] n = 5 -> "5" [] n = 6 -> "6" [] n = 7 -> "7"
      [] n = 8 -> "8" [] OTHER -> "9"

\* str.strip(): drop the whitespace at both ends
RECURSIVE LStrip(_)
LStrip(s) == IF s # <<>> /\ Head(s) \in WS THEN LStrip(Tail(s)) ELSE s

RECURSIVE RStrip(_)
RStrip(s) ==
    IF s # <<>> /\ s[Len(s)] \in WS THEN RStrip(SubSeq(s, 1, Len(s) - 1)) ELSE s

Strip(s) == RStrip(LStrip(s))

\* position of the first occurrence of token t in s at or after i, 0 if none
RECURSIVE IndexFrom(_, _, _)
IndexFrom(s, t, i) ==
    IF i > Len(s) THEN 0
    ELSE IF s[i] = t THEN i ELSE IndexFrom(s, t, i + 1)

\* position of the last occurrence of token t in s at or after i, 0 if none
RECURSIVE LastIndexFrom(_, _, _)
LastIndexFrom(s, t, i) ==
    IF i > Len(s) THEN 0
    ELSE LET later == LastIndexFrom(s, t, i + 1)
         IN  IF later # 0 THEN later ELSE IF s[i] = t THEN i ELSE 0

\* the greedy pattern <idascript>(.*)</idascript>: up to the last close
FindAllFrom_Greedy(text, i) ==
    LET p == IndexFrom(text, OPEN, i)
        q == IF p = 0 THEN 0 ELSE LastIndexFrom(text, CLOSE, p + 1)
    IN  IF p = 0 \/ q = 0 THEN <<>>
        ELSE <<SubSeq(text, p + 1, q - 1)>>

\* IDASCRIPT_PATTERN.findall(text): the groups of the non-overlapping,
\* non-greedy matches of <idascript>(.*?)</idascript>, left to right
RECURSIVE FindAllFrom(_, _)
FindAllFrom(text, i) ==
    LET p == IndexFrom(text, OPEN, i)
        q == IF p = 0 THEN 0 ELSE IndexFrom(text, CLOSE, p + 1)
    IN  IF p = 0 \/ q = 0 THEN <<>>
        ELSE <<SubSeq(text, p + 1, q - 1)>> \o FindAllFrom(text, q + 1)

FindAll(text) == FindAllFrom(text, 1)

\* IDASCRIPT_PATTERN.sub("", text): the text with every match removed
RECURSIVE SubFrom(_, _)
SubFrom(text, i) ==
    LET p == IndexFrom(text, OPEN, i)
        q == IF p = 0 THEN 0 ELSE IndexFrom(text, CLOSE, p + 1)
    IN  IF p = 0 \/ q = 0 THEN SubSeq(text, i, Len(text))
        ELSE SubSeq(text, i, p - 1) \o SubFrom(text, q + 1)

Cleaned(text) == Strip(SubFrom(text, 1))

\* "".join(chunks)
RECURSIVE Concat(_)
Concat(chunks) == IF chunks = <<>> THEN <<>> ELSE Head(chunks) \o Concat(Tail(chunks))

\* sep.join(parts)
RECURSIVE Join(_, _)
Join(sep, parts) ==
    IF parts = <<>> THEN <<>>
    ELSE IF Len(parts) = 1 THEN parts[1]
    ELSE parts[1] \o sep \o Join(sep, Tail(parts))


\* ------------------------------------------------------------------------
\* Inputs: content blocks of a response, executor outputs, user messages
\* ------------------------------------------------------------------------
\* prose only; one fragment and nothing to show; prose and one fragment
TextChunks ==
    { <<"a">>,
      <<OPEN, "x", CLOSE>>,
      <<"b", OPEN, " ", "y", CLOSE, " ">> }

TextBlock(text) == [kind |-> "text", text |-> text]
ToolUseBlock(name, input) == [kind |-> "tool", name |-> name, input |-> input]

ToolBlocks == { ToolUseBlock("Read", [file_path |-> "f"]) }

Blocks == {TextBlock(t) : t \in TextChunks} \cup ToolBlocks

\* what a script execution can return: no output, some output
Outputs == { <<>>, <<"o">> }

UserInputs == { <<"u">> }

\* ------------------------------------------------------------------------
\* Notifications to the callback and entries of the session log
\* ------------------------------------------------------------------------
EvTurnStart(t, m) == [ev |-> "turn_start", turn |-> t, max |-> m]
EvThinking == [ev |-> "thinking"]
EvThinkingDone == [ev |-> "thinking_done"]
EvToolUse(name, details) == [ev |-> "tool_use", name |-> name, details |-> details]
EvText(text) == [ev |-> "text", text |-> text]
EvScriptCode(code) == [ev |-> "script_code", code |-> code]
EvScriptOutput(out) == [ev |-> "script_output", output |-> out]
EvError(msg) == [ev |-> "error", msg |-> msg]
EvResult == [ev |-> "result"]

MsgCancelled == <<"Operation cancelled">>
MsgMaxTurns(m) == <<"Reached maximum turns (", ToStr(m), ")">>

LogUser(text) == [type |-> "user", text |-> text]
LogAssistant(text) == [type |-> "assistant", text |-> text]
LogToolUse(name, input) == [type |-> "tool_use", name |-> name, input |-> input]
LogToolResult(out) == [type |-> "tool_result", output |-> out]

\* the pair written the other way round: the result before the tool use
LogScriptExecution_ResultFirst(code, out) ==
    << LogToolResult(out), LogToolUse("IDAPythonExec", [code |-> code]) >>

\* append_script_execution(code, output): a tool use followed by its result
LogScriptExecution(code, out) ==
    << LogToolUse("IDAPythonExec", [code |-> code]), LogToolResult(out) >>

\* str(block.input): the raw dump of a tool's parameters
RECURSIVE DumpFields(_, _)
DumpFields(input, keys) ==
    IF keys = {} THEN <<>>
    ELSE LET k == CHOOSE x \in keys : TRUE
         IN  <<k, ": ", input[k]>> \o
             (IF keys = {k} THEN <<>> ELSE <<", ">>) \o
             DumpFields(input, keys \ {k})

RawDump(input) == <<"{">> \o DumpFields(input, DOMAIN input) \o <<"}">>

\* the details shown for a tool invocation
ToolDetails(b) ==
    CASE b.name = "Read" ->
            IF "file_path" \in DOMAIN b.input THEN <<b.input.file_path>> ELSE <<>>
      [] b.name \in {"Grep", "Glob"} ->
            IF "pattern" \in DOMAIN b.input THEN <<b.input.pattern>> ELSE <<>>
      [] b.name = "Task" ->
            IF "description" \in DOMAIN b.input THEN <<b.input.description>> ELSE <<>>
      [] OTHER -> RawDump(b.input)

\* ------------------------------------------------------------------------
\* Feedback to the agent and the value returned by process_message
\* ------------------------------------------------------------------------
NL == <<"\n">>
BlankLine == <<"\n", "\n">>
FeedbackHeader == <<"Script output:">> \o BlankLine
NoOutputSentinel == <<"Script executed successfully with no output.">>

ScriptLabel(i) == <<"Script ", ToStr(i), " output:">> \o NL

\* formatted_outputs with labels counted from 0
FormattedOutputs_ZeroBased(found, outputs) ==
    [i \in 1..Len(outputs) |->
        IF Len(found) > 1 THEN ScriptLabel(i - 1) \o outputs[i] ELSE outputs[i]]

\* formatted_outputs of process_message
FormattedOutputs(found, outputs) ==
    [i \in 1..Len(outputs) |->
        IF Len(found) > 1 THEN ScriptLabel(i) \o outputs[i] ELSE outputs[i]]

\* current_input for the next turn
Feedback(found, outputs) ==
    IF outputs # <<>>
    THEN FeedbackHeader \o Join(BlankLine, FormattedOutputs(found, outputs))
    ELSE NoOutputSentinel

ReturnValue(outputs) == IF outputs # <<>> THEN Join(NL, outputs) ELSE <<>>


\* ------------------------------------------------------------------------
\* State
\* ------------------------------------------------------------------------
VARIABLES
    max_turns,          \* IDAChatCore.max_turns
    verbose,            \* IDAChatCore.verbose
    history,            \* TRUE iff a MessageHistory is attached
    script_executor,    \* which executor IDAChatCore._execute_script is
    client,             \* IDAChatCore.client: "none", or a client object
                        \* that is "created" or "connected"
    cancelled,          \* IDAChatCore._cancelled
    pc,                 \* position of the worker in process_message
    turn,               \* local of process_message
    current_input,      \* local of process_message
    all_script_outputs, \* local of process_message
    full_text,          \* local of _process_single_response
    scripts_found,      \* local of _process_single_response
    script_outputs,     \* local of _process_single_response
    first_output,       \* local of _process_single_response
    j,                  \* 1-based index of the script the loop is at
    stream,             \* content blocks received since the latest turn start
    sink,               \* notifications since the latest turn start
    hist,               \* session-log entries since the call began or the
                        \* latest turn start after turn 1
    execs,              \* executions started in the current turn
    queries,            \* inputs sent to the agent in the current call
    obs,                \* what happened so far in the current call
    outcome,            \* how the latest call ended
    retval,             \* value returned by the latest call
    cancelWindow,       \* where in the call request_cancel arrived
    sys_stdout,         \* sys.stdout, the output stream of the process
    worker,             \* the AgentWorker of the plugin
    session_id,         \* MessageHistory.session_id, 0 for None
    session_file,       \* MessageHistory.session_file: the session whose
                        \* file it names, 0 for None
    parent_uuid,        \* MessageHistory._parent_uuid, 0 for None
    files,              \* the files of session_dir: session id -> content
    uuids,              \* how many uuids _generate_uuid has handed out
    started,            \* how many sessions have been started
    written,            \* session id -> the entries given to _write_entry
    result,             \* what the latest MessageHistory operation did
    binary_path,        \* MessageHistory.binary_path, one per MessageHistory
    session_dir,        \* MessageHistory.session_dir, one per MessageHistory;
                        \* <<>> before the constructor has run
    form                \* the IDAChatForm and the queues of the UI thread

pathVars == <<binary_path, session_dir>>
\* what no step of the core and no operation of the history changes
cfg == <<max_turns, verbose, history, script_executor, pathVars, form>>
loopVars == <<turn, current_input, all_script_outputs>>
respVars == <<full_text, scripts_found, script_outputs, first_output, j>>
obsVars == <<sink, hist, execs, stream, queries, obs>>
endVars == <<outcome, retval>>
procVars == <<sys_stdout, worker>>
logVars == <<session_id, session_file, parent_uuid, files, uuids, started,
             written, result>>

vars == <<cfg, client, cancelled, pc, loopVars, respVars, obsVars, endVars,
          cancelWindow, procVars, logVars>>

\* turnStarts, execs, cancelNotices, maxTurnErrors: how many so far;
\* done: a response of the call held no fragment;
\* stub: every response of the call held exactly one fragment, whose
\*       execution returned a non-empty output
NoObs == [turnStarts |-> 0, execs |-> 0, cancelNotices |-> 0,
          maxTurnErrors |-> 0, done |-> FALSE, stub |-> TRUE]

\* the AgentWorker before request_connect: thread not started, no core
\* thread: where the worker thread is ("off": not running); core: self.core
\* is set; pending: _pending_message; message: the local of _async_run;
\* sent, taken: messages queued and picked up; errors, finished: emissions
\* of the error signal by _async_run and of the finished signal
NoWorker ==
    [thread |-> "off", core |-> FALSE, should_connect |-> FALSE,
     should_disconnect |-> FALSE, should_new_session |-> FALSE,
     running |-> TRUE, pending |-> <<>>, message |-> <<>>,
     sent |-> 0, taken |-> 0, errors |-> 0, finished |-> 0]

\* ida_chat_plugin.py lines 1218-1230: the form before _init_agent.
\* worker: self.worker is set; is_processing: _is_processing;
\* input_enabled: input_widget.isEnabled(); ui: what the UI thread is doing
\* ("idle": in its event loop, "wait": inside worker.wait of OnClose,
\* "closed": OnClose has returned); signals: the emissions queued for the
\* UI thread; requests: the run_script calls execute_sync has queued for
\* the UI thread; reply: result[0] of the latest run_script; emitted,
\* posted, ran: thinking signals emitted, requests queued and scripts run in
\* the call in progress; sent: the messages _send_message accepted, each
\* with the number of sessions started when the chat was last cleared;
\* processed: the messages of the calls that are over; cleared: that number
\* at the latest clear; gave_up: worker.wait returned on its timeout
NoForm ==
    [worker |-> FALSE, is_processing |-> FALSE, input_enabled |-> FALSE,
     ui |-> "idle", signals |-> <<>>, requests |-> <<>>, reply |-> <<>>,
     emitted |-> 0, posted |-> 0, ran |-> 0,
     sent |-> <<>>, processed |-> <<>>, cleared |-> 0, gave_up |-> FALSE]

\* ida_chat_history.py lines 31-41: a MessageHistory after construction, no
\* session started, its directory without files.  The turn loop's appends
\* are followed in hist; the object and its files are followed in
\* SpecHistory, which calls the operations the turn loop calls.
NoResult == [op |-> "none", arg |-> 0, raised |-> FALSE, value |-> <<>>]

\* MessageHistory.BASE_DIR
BASE_DIR == <<"~/.ida-chat/sessions/">>

\* the characters _encode_path replaces: '/', backslash, ':' and space
Separators == {"/", "\\", ":", " "}

\* re.sub(r'[/\\: ]', '_', path)
ReplaceSeparators(path) ==
    [i \in 1..Len(path) |-> IF path[i] \in Separators THEN "_" ELSE path[i]]

\* encoded.lstrip('_')
RECURSIVE LStripUnderscores(_)
LStripUnderscores(s) ==
    IF s # <<>> /\ Head(s) = "_" THEN LStripUnderscores(Tail(s)) ELSE s

\* re.sub(r'_+', '_', encoded)
RECURSIVE CollapseUnderscores(_)
CollapseUnderscores(s) ==
    IF Len(s) < 2 THEN s
    ELSE IF s[1] = "_" /\ s[2] = "_" THEN CollapseUnderscores(Tail(s))
    ELSE <<s[1]>> \o CollapseUnderscores(Tail(s))

\* _encode_path, lines 43-60
EncodePath(path) ==
    CollapseUnderscores(LStripUnderscores(ReplaceSeparators(path)))

\* _get_session_dir, lines 62-69: BASE_DIR / encoded_path
GetSessionDir(path) == BASE_DIR \o EncodePath(path)

\* the binary of the one MessageHistory of a plugin
DefaultBinary == <<"/", "a">>

LogInit ==
    /\ binary_path = <<DefaultBinary>>
    /\ session_dir = <<GetSessionDir(DefaultBinary)>>
    /\ session_id = 0
    /\ session_file = 0
    /\ parent_uuid = 0
    /\ files = <<>>
    /\ uuids = 0
    /\ started = 0
    /\ written = <<>>
    /\ result = NoResult

\* lines 168-197: the core after construction, before any call
CoreInit ==
    /\ client = "none"
    /\ cancelled = FALSE
    /\ pc = "idle"
    /\ turn = 0
    /\ current_input = <<>>
    /\ all_script_outputs = <<>>
    /\ full_text = <<>>
    /\ scripts_found = <<>>
    /\ script_outputs = <<>>
    /\ first_output = TRUE
    /\ j = 1
    /\ stream = <<>>
    /\ sink = <<>>
    /\ hist = <<>>
    /\ execs = <<>>
    /\ queries = <<>>
    /\ obs = NoObs
    /\ outcome = "none"
    /\ retval = <<>>
    /\ cancelWindow = "none"

\* a core with a session log and the default executor, no worker around it
Init ==
    /\ max_turns \in 0..MaxTurnsCap
    /\ verbose \in BOOLEAN
    /\ history = TRUE
    /\ script_executor = "default"
    /\ sys_stdout = "console"
    /\ worker = NoWorker
    /\ form = NoForm
    /\ LogInit
    /\ CoreInit

\* the fragments of the response received so far in this turn
Fragments == FindAll(Concat(full_text))

\* ------------------------------------------------------------------------
\* Connection
\* ------------------------------------------------------------------------
\* lines 222-224: the client is created and connects
Connect ==
    /\ pc = "idle"
    /\ client # "connected"
    /\ client' = "connected"
    /\ UNCHANGED <<cfg, logVars, procVars, cancelled, pc, loopVars, respVars, obsVars, endVars,
                   cancelWindow>>

\* lines 222-223: the client is created and stored, then its connect raises
ConnectFails ==
    /\ pc = "idle"
    /\ client # "connected"
    /\ client' = "created"
    /\ UNCHANGED <<cfg, logVars, procVars, cancelled, pc, loopVars, respVars, obsVars, endVars,
                   cancelWindow>>

\* lines 226-230
Disconnect ==
    /\ pc = "idle"
    /\ client # "none"
    /\ client' = "none"
    /\ UNCHANGED <<cfg, logVars, procVars, cancelled, pc, loopVars, respVars, obsVars, endVars,
                   cancelWindow>>

\* request_cancel that records the request without setting the core's flag
RequestCancel_NoFlag ==
    /\ cancelWindow' =
          IF pc = "while" /\ turn = 1 THEN "boundary"
          ELSE IF pc = "query" /\ turn = 2 THEN "late"
          ELSE cancelWindow
    /\ UNCHANGED <<cfg, logVars, procVars, client, cancelled, pc, loopVars, respVars, obsVars, endVars>>

\* ------------------------------------------------------------------------
\* request_cancel, called from any thread at any time
\* ------------------------------------------------------------------------
RequestCancel ==
    /\ cancelled' = TRUE
    /\ cancelWindow' =
          IF pc = "while" /\ turn = 1 THEN "boundary"
          ELSE IF pc = "query" /\ turn = 2 THEN "late"
          ELSE cancelWindow
    /\ UNCHANGED <<cfg, logVars, procVars, client, pc, loopVars, respVars, obsVars, endVars>>

\* ------------------------------------------------------------------------
\* process_message
\* ------------------------------------------------------------------------
\* an exception leaves process_message
Raise ==
    /\ pc' = "idle"
    /\ outcome' = "raised"
    /\ retval' = <<>>

\* lines 366-367: no client
ProcessMessageNotConnected ==
    /\ pc = "idle"
    /\ client = "none"
    /\ Raise
    /\ UNCHANGED <<cfg, logVars, procVars, client, cancelled, loopVars, respVars, obsVars, cancelWindow>>

\* the call started without logging the user's message
ProcessMessage_Unlogged(user_input) ==
    /\ pc = "idle"
    /\ client # "none"
    /\ hist' = <<>>
    /\ current_input' = user_input
    /\ all_script_outputs' = <<>>
    /\ turn' = 0
    /\ cancelled' = FALSE
    /\ pc' = "while"
    /\ sink' = <<>>
    /\ execs' = <<>>
    /\ stream' = <<>>
    /\ queries' = <<>>
    /\ obs' = NoObs
    /\ outcome' = "none"
    /\ retval' = <<>>
    /\ cancelWindow' = "none"
    /\ UNCHANGED <<cfg, logVars, procVars, client, respVars>>

\* lines 366-379: log the user message, initialise the loop
ProcessMessage(user_input) ==
    /\ pc = "idle"
    /\ client # "none"
    /\ hist' = IF history THEN <<LogUser(user_input)>> ELSE <<>>
    /\ current_input' = user_input
    /\ all_script_outputs' = <<>>
    /\ turn' = 0
    /\ cancelled' = FALSE
    /\ pc' = "while"
    /\ sink' = <<>>
    /\ execs' = <<>>
    /\ stream' = <<>>
    /\ queries' = <<>>
    /\ obs' = NoObs
    /\ outcome' = "none"
    /\ retval' = <<>>
    /\ cancelWindow' = "none"
    /\ UNCHANGED <<cfg, logVars, procVars, client, respVars>>

\* the loop condition off by one
LoopCondition_OffByOne == turn <= max_turns

\* line 381: while turn < self.max_turns
LoopCondition == turn < max_turns

\* line 383: if self._cancelled
CancelObserved == cancelled

\* the cancellation branch without its break: the notice is given and the
\* turn goes on
LoopCancelled_NoBreak ==
    /\ pc = "while"
    /\ LoopCondition
    /\ CancelObserved
    /\ turn' = turn + 1
    /\ sink' = <<EvError(MsgCancelled), EvTurnStart(turn + 1, max_turns), EvThinking>>
    /\ hist' = IF turn = 0 THEN hist ELSE <<>>
    /\ execs' = <<>>
    /\ stream' = <<>>
    /\ obs' = [obs EXCEPT !.cancelNotices = @ + 1, !.turnStarts = @ + 1]
    /\ pc' = "query"
    /\ UNCHANGED <<cfg, logVars, procVars, client, cancelled, current_input, all_script_outputs,
                   respVars, queries, endVars, cancelWindow>>

\* lines 381-386: the loop continues and sees the cancellation flag
LoopCancelled ==
    /\ pc = "while"
    /\ LoopCondition
    /\ CancelObserved
    /\ sink' = Append(sink, EvError(MsgCancelled))
    /\ obs' = [obs EXCEPT !.cancelNotices = @ + 1]
    /\ pc' = "post"
    /\ UNCHANGED <<cfg, logVars, procVars, client, cancelled, loopVars, respVars, hist, execs, stream,
                   queries, endVars, cancelWindow>>

\* the next turn begun without counting it
LoopTurnStartIn_NoCount(whole_call) ==
    /\ pc = "while"
    /\ LoopCondition
    /\ ~CancelObserved
    /\ turn' = turn
    /\ sink' = (IF whole_call THEN sink ELSE <<>>) \o
               <<EvTurnStart(turn + 1, max_turns), EvThinking>>
    /\ hist' = IF turn = 0 \/ whole_call THEN hist ELSE <<>>
    /\ execs' = IF whole_call THEN execs ELSE <<>>
    /\ stream' = <<>>
    /\ obs' = [obs EXCEPT !.turnStarts = @ + 1]
    /\ pc' = "query"
    /\ UNCHANGED <<cfg, logVars, procVars, client, cancelled, current_input, all_script_outputs,
                   respVars, queries, endVars, cancelWindow>>

\* lines 381-390: the loop continues with the next turn; sink, hist and
\* execs restart with the turn, or (whole_call) go on growing through the
\* call
LoopTurnStartIn(whole_call) ==
    /\ pc = "while"
    /\ LoopCondition
    /\ ~CancelObserved
    /\ turn' = turn + 1
    /\ sink' = (IF whole_call THEN sink ELSE <<>>) \o
               <<EvTurnStart(turn + 1, max_turns), EvThinking>>
    /\ hist' = IF turn = 0 \/ whole_call THEN hist ELSE <<>>
    /\ execs' = IF whole_call THEN execs ELSE <<>>
    /\ stream' = <<>>
    /\ obs' = [obs EXCEPT !.turnStarts = @ + 1]
    /\ pc' = "query"
    /\ UNCHANGED <<cfg, logVars, procVars, client, cancelled, current_input, all_script_outputs,
                   respVars, queries, endVars, cancelWindow>>

LoopTurnStart == LoopTurnStartIn(FALSE)

\* line 381: the loop condition fails
LoopExit ==
    /\ pc = "while"
    /\ ~LoopCondition
    /\ pc' = "post"
    /\ UNCHANGED <<cfg, logVars, procVars, client, cancelled, loopVars, respVars, obsVars, endVars,
                   cancelWindow>>

\* line 394: client.query(current_input); lines 258-261
Query ==
    /\ pc = "query"
    /\ client = "connected"
    /\ queries' = Append(queries, current_input)
    /\ full_text' = <<>>
    /\ scripts_found' = <<>>
    /\ script_outputs' = <<>>
    /\ first_output' = TRUE
    /\ j' = 1
    /\ pc' = "recv"
    /\ UNCHANGED <<cfg, logVars, procVars, client, cancelled, loopVars, sink, hist, execs, stream, obs,
                   endVars, cancelWindow>>

\* line 394: the transport raises while sending (it always does when the
\* client never connected)
QueryRaises ==
    /\ pc = "query"
    /\ Raise
    /\ UNCHANGED <<cfg, logVars, procVars, client, cancelled, loopVars, respVars, obsVars,
                   cancelWindow>>


\* ------------------------------------------------------------------------
\* _process_single_response
\* ------------------------------------------------------------------------
\* thinking-done notified on every content block
ThinkingDone_Always == <<EvThinkingDone>>

\* lines 272-274: thinking done on the first content block
ThinkingDone == IF first_output THEN <<EvThinkingDone>> ELSE <<>>

\* lines 276-301: a tool-use block arrives
RecvToolUse(b) ==
    /\ pc = "recv"
    /\ Len(stream) < MaxBlocks
    /\ b.kind = "tool"
    /\ stream' = Append(stream, b)
    /\ first_output' = FALSE
    /\ sink' = sink \o ThinkingDone \o <<EvToolUse(b.name, ToolDetails(b))>>
    /\ hist' = IF history THEN Append(hist, LogToolUse(b.name, b.input)) ELSE hist
    /\ UNCHANGED <<cfg, logVars, procVars, client, cancelled, pc, loopVars, full_text, scripts_found,
                   script_outputs, j, execs, queries, obs, endVars, cancelWindow>>

\* lines 303-314: a text block arrives
RecvText(b) ==
    /\ pc = "recv"
    /\ Len(stream) < MaxBlocks
    /\ b.kind = "text"
    /\ stream' = Append(stream, b)
    /\ first_output' = FALSE
    /\ full_text' = Append(full_text, b.text)
    /\ LET cleaned == Cleaned(b.text)
       IN  /\ sink' = sink \o ThinkingDone \o
                      (IF cleaned # <<>> THEN <<EvText(cleaned)>> ELSE <<>>)
           /\ hist' = IF cleaned # <<>> /\ history
                      THEN Append(hist, LogAssistant(cleaned)) ELSE hist
    /\ UNCHANGED <<cfg, logVars, procVars, client, cancelled, pc, loopVars, scripts_found,
                   script_outputs, j, execs, queries, obs, endVars, cancelWindow>>

\* lines 322-324: the scripts of the whole response
ExtractScripts(chunks) == IF chunks # <<>> THEN FindAll(Concat(chunks)) ELSE <<>>

\* lines 318-325: the terminal result message arrives; extract the scripts
RecvResult ==
    /\ pc = "recv"
    /\ scripts_found' = ExtractScripts(full_text)
    /\ j' = 1
    /\ pc' = "exec"
    /\ UNCHANGED <<cfg, logVars, procVars, client, cancelled, loopVars, full_text, script_outputs,
                   first_output, obsVars, endVars, cancelWindow>>

\* line 263: the transport raises while streaming
RecvRaises ==
    /\ pc = "recv"
    /\ Raise
    /\ UNCHANGED <<cfg, logVars, procVars, client, cancelled, loopVars, respVars, obsVars,
                   cancelWindow>>

\* line 329: code = script_code.strip()
ScriptCode(k) == Strip(scripts_found[k])

\* sys.stdout restored only when the script ended without an escaping
\* exception
StdoutAfterExecute_NoFinally(before, escapes) ==
    LET old_stdout == before
        captured == "StringIO"
    IN  IF escapes THEN captured ELSE old_stdout

\* lines 241-250 (and run_script of the plugin): sys.stdout is saved,
\* redirected to a StringIO, and restored in the finally clause however the
\* script ends
StdoutAfterExecute(before, escapes) ==
    LET old_stdout == before
        captured == "StringIO"
    IN  IF escapes THEN old_stdout ELSE old_stdout

\* the script loop without the script-code notification
NotifyScriptCode_Silent ==
    /\ pc = "exec"
    /\ j <= Len(scripts_found)
    /\ pc' = "run"
    /\ UNCHANGED <<cfg, logVars, procVars, client, cancelled, loopVars, respVars, obsVars, endVars,
                   cancelWindow>>

\* lines 328-331: the loop reaches the next script and shows its code
NotifyScriptCode ==
    /\ pc = "exec"
    /\ j <= Len(scripts_found)
    /\ sink' = Append(sink, EvScriptCode(ScriptCode(j)))
    /\ pc' = "run"
    /\ UNCHANGED <<cfg, logVars, procVars, client, cancelled, loopVars, respVars, hist, execs, stream,
                   queries, obs, endVars, cancelWindow>>

\* lines 332-340: the executor returns out
RunScript(out) ==
    /\ pc = "run"
    /\ execs' = Append(execs, [index |-> j, code |-> ScriptCode(j),
                               at |-> Len(sink), outcome |-> <<out>>])
    /\ obs' = [obs EXCEPT !.execs = @ + 1]
    /\ script_outputs' = Append(script_outputs, out)
    /\ sink' = IF out # <<>> THEN Append(sink, EvScriptOutput(out)) ELSE sink
    /\ hist' = IF history THEN hist \o LogScriptExecution(ScriptCode(j), out) ELSE hist
    /\ j' = j + 1
    /\ pc' = "exec"
    /\ sys_stdout' = StdoutAfterExecute(sys_stdout, FALSE)
    /\ UNCHANGED <<cfg, logVars, worker, client, cancelled, loopVars, full_text, scripts_found,
                   first_output, stream, queries, endVars, cancelWindow>>

\* line 332: the executor lets an exception of the script escape
\* (SystemExit, KeyboardInterrupt: not caught by "except Exception")
RunScriptRaises ==
    /\ pc = "run"
    /\ execs' = Append(execs, [index |-> j, code |-> ScriptCode(j),
                               at |-> Len(sink), outcome |-> <<>>])
    /\ obs' = [obs EXCEPT !.execs = @ + 1]
    /\ Raise
    /\ sys_stdout' = StdoutAfterExecute(sys_stdout, TRUE)
    /\ UNCHANGED <<cfg, logVars, worker, client, cancelled, loopVars, respVars, sink, hist, stream,
                   queries, cancelWindow>>

\* the stop test on the wrong list: done only if the agent said nothing
AgentDone_NoText == full_text = <<>>

\* line 400: if not scripts_found
AgentDone == scripts_found = <<>>

\* the max-turns test with a strict comparison
MaxTurnsReached_Strict == turn > max_turns

\* line 420: if turn >= self.max_turns
MaxTurnsReached == turn >= max_turns

\* the outputs of the turn replace those of the earlier turns instead of
\* extending them
FinishResponse_LastTurnOnly ==
    /\ pc = "exec"
    /\ j > Len(scripts_found)
    /\ sink' = IF verbose THEN Append(sink, EvResult) ELSE sink
    /\ all_script_outputs' = script_outputs
    /\ obs' = [obs EXCEPT
                 !.done = @ \/ Fragments = <<>>,
                 !.stub = @ /\ Len(Fragments) = 1 /\ Len(execs) = 1
                            /\ execs[1].outcome \notin {<<>>, << <<>> >>}]
    /\ IF AgentDone
       THEN /\ pc' = "post"
            /\ UNCHANGED current_input
       ELSE /\ pc' = "while"
            /\ current_input' = Feedback(scripts_found, script_outputs)
    /\ UNCHANGED <<cfg, logVars, procVars, client, cancelled, turn, respVars, hist, execs, stream,
                   queries, endVars, cancelWindow>>

\* the prose of the response sent back to the agent after the outputs
FinishResponse_EchoProse ==
    /\ pc = "exec"
    /\ j > Len(scripts_found)
    /\ sink' = IF verbose THEN Append(sink, EvResult) ELSE sink
    /\ all_script_outputs' = all_script_outputs \o script_outputs
    /\ obs' = [obs EXCEPT
                 !.done = @ \/ Fragments = <<>>,
                 !.stub = @ /\ Len(Fragments) = 1 /\ Len(execs) = 1
                            /\ execs[1].outcome \notin {<<>>, << <<>> >>}]
    /\ IF AgentDone
       THEN /\ pc' = "post"
            /\ UNCHANGED current_input
       ELSE /\ pc' = "while"
            /\ current_input' = Feedback(scripts_found, script_outputs) \o
                                Cleaned(Concat(full_text))
    /\ UNCHANGED <<cfg, logVars, procVars, client, cancelled, turn, respVars, hist, execs, stream,
                   queries, endVars, cancelWindow>>

\* lines 342-350 and 398-418: the response is processed; stop or feed back
FinishResponse ==
    /\ pc = "exec"
    /\ j > Len(scripts_found)
    /\ sink' = IF verbose THEN Append(sink, EvResult) ELSE sink
    /\ all_script_outputs' = all_script_outputs \o script_outputs
    /\ obs' = [obs EXCEPT
                 !.done = @ \/ Fragments = <<>>,
                 !.stub = @ /\ Len(Fragments) = 1 /\ Len(execs) = 1
                            /\ execs[1].outcome \notin {<<>>, << <<>> >>}]
    /\ IF AgentDone
       THEN /\ pc' = "post"
            /\ UNCHANGED current_input
       ELSE /\ pc' = "while"
            /\ current_input' = Feedback(scripts_found, script_outputs)
    /\ UNCHANGED <<cfg, logVars, procVars, client, cancelled, turn, respVars, hist, execs, stream,
                   queries, endVars, cancelWindow>>

\* lines 420-424: after the loop
PostLoop ==
    /\ pc = "post"
    /\ IF MaxTurnsReached
       THEN /\ sink' = Append(sink, EvError(MsgMaxTurns(max_turns)))
            /\ obs' = [obs EXCEPT !.maxTurnErrors = @ + 1]
       ELSE UNCHANGED <<sink, obs>>
    /\ retval' = ReturnValue(all_script_outputs)
    /\ outcome' = "returned"
    /\ pc' = "idle"
    /\ UNCHANGED <<cfg, logVars, procVars, client, cancelled, loopVars, respVars, hist, execs, stream,
                   queries, cancelWindow>>

\* the turn loop of a core that has been connected; the life of the
\* connection (failed connect, disconnect, calls without a client) is
\* explored in SpecConnect
Next ==
    \/ Connect
    \/ RequestCancel
    \/ \E u \in UserInputs : ProcessMessage(u)
    \/ LoopCancelled
    \/ LoopTurnStart
    \/ LoopExit
    \/ Query
    \/ QueryRaises
    \/ \E b \in Blocks : RecvToolUse(b)
    \/ \E b \in Blocks : RecvText(b)
    \/ RecvResult
    \/ RecvRaises
    \/ NotifyScriptCode
    \/ \E out \in Outputs : RunScript(out)
    \/ RunScriptRaises
    \/ FinishResponse
    \/ PostLoop

Spec == Init /\ [][Next]_vars


\* ------------------------------------------------------------------------
\* Claims
\* ------------------------------------------------------------------------
LastSink == IF sink = <<>> THEN [ev |-> "none"] ELSE sink[Len(sink)]

\* the latest call returned and nobody asked to cancel it
ReturnedUncancelled == pc = "idle" /\ outcome = "returned" /\ ~cancelled

\* C1: at every moment of a call the turn counter, the number of turn starts
\* and the number of queries sent to the agent are at most max_turns.
C1_TurnCap ==
    /\ turn <= max_turns
    /\ obs.turnStarts <= max_turns
    /\ Len(queries) <= max_turns

C1_Witness ==
    /\ max_turns = MaxTurnsCap
    /\ pc = "while"
    /\ turn = max_turns
    /\ Len(queries) = max_turns

\* C2: with an agent whose every response holds exactly one fragment with a
\* non-empty output, an uncancelled call with max_turns = N executes N
\* scripts, sends N queries and ends with the max-turns error, not by done.
C2_TurnCapStub ==
    (ReturnedUncancelled /\ obs.stub) =>
        /\ obs.execs = max_turns
        /\ Len(queries) = max_turns
        /\ obs.maxTurnErrors = 1
        /\ LastSink = EvError(MsgMaxTurns(max_turns))
        /\ ~obs.done

C2_Witness ==
    /\ ReturnedUncancelled
    /\ obs.stub
    /\ max_turns = MaxTurnsCap
    /\ obs.execs = max_turns

\* C3: a call in which a response held no fragment (the done path) emits no
\* max-turns error, whatever max_turns >= 1 is and on whichever turn the
\* fragment-free response arrives.
C3_NoMaxTurnsErrorWhenDone ==
    (max_turns >= 1 /\ obs.done) => obs.maxTurnErrors = 0

\* C4: once a response of the call has held no fragment the loop is left,
\* and for the rest of the call no query is sent, no script is executed and
\* no turn start is notified.
C4_NaturalStop ==
    /\ [](obs.done => pc \in {"post", "idle"})
    /\ [][(obs.done /\ obs'.done) =>
            /\ queries' = queries
            /\ execs' = execs
            /\ obs'.execs = obs.execs
            /\ obs'.turnStarts = obs.turnStarts
            /\ turn' = turn]_vars

C4_Witness ==
    /\ obs.done
    /\ pc = "idle"
    /\ outcome = "returned"
    /\ turn = 1
    /\ max_turns > turn
    /\ Len(queries) = 1


\* C5 as stated: when request_cancel arrives after turn 1 has completed and
\* before turn 2's query is sent (max_turns >= 2, so that a turn 2 is due),
\* no second turn start is notified, no second query is sent, and the call
\* ends with the cancellation notice.
C5_CancelBeforeQuery2 ==
    (cancelWindow # "none" /\ max_turns >= 2) =>
        /\ Len(queries) <= 1
        /\ (pc = "idle" => obs.cancelNotices = 1)

\* C5 as amended: when request_cancel arrives after turn 1 has completed and
\* before the loop's cancellation check of the second iteration
\* (max_turns >= 2), no second turn start is notified, no second query is
\* sent, and the call ends with the cancellation notice.
C5_CancelBeforeCheck2 ==
    (cancelWindow = "boundary" /\ max_turns >= 2) =>
        /\ Len(queries) <= 1
        /\ obs.turnStarts <= 1
        /\ turn = 1
        /\ (pc = "idle" => obs.cancelNotices = 1 /\ LastSink = EvError(MsgCancelled))

C5_Witness ==
    /\ cancelWindow = "boundary"
    /\ max_turns >= 2
    /\ pc = "idle"
    /\ obs.cancelNotices = 1
    /\ Len(queries) = 1

\* C6: the cancellation notice is given at most once per call; once it is
\* given the loop is left, and for the rest of the call no query is sent
\* (so the outputs of the completed turn never reach the agent), no script
\* is executed and no turn start is notified.
C6_CancelExits ==
    /\ [](obs.cancelNotices <= 1)
    /\ [](obs.cancelNotices = 1 =>
            /\ pc \in {"post", "idle"}
            /\ Len(queries) = turn
            /\ obs.maxTurnErrors = 0)
    /\ [][(obs.cancelNotices = 1 /\ obs'.cancelNotices = 1) =>
            /\ queries' = queries
            /\ execs' = execs
            /\ obs'.execs = obs.execs
            /\ obs'.turnStarts = obs.turnStarts
            /\ turn' = turn]_vars

C6_Witness ==
    /\ obs.cancelNotices = 1
    /\ pc = "idle"
    /\ outcome = "returned"
    /\ Len(queries) = 1
    /\ script_outputs # <<>>
    /\ current_input # queries[1]

\* the Query step of turn 2 or later: the outputs of the previous turn are
\* still in script_outputs
FeedbackStep == pc = "query" /\ pc' = "recv" /\ turn >= 2

\* C7: after a turn in which exactly one fragment ran, the input sent on the
\* next turn is that fragment's output verbatim if it is non-empty, and the
\* "executed successfully with no output" sentinel if it is empty.
C7_FeedbackOneFragment ==
    [][(FeedbackStep /\ Len(script_outputs) = 1) =>
          queries'[turn] = IF script_outputs[1] # <<>>
                           THEN script_outputs[1]
                           ELSE NoOutputSentinel]_vars

\* the k outputs, the i-th under the label "Script i output:"
Labelled(outputs) ==
    [i \in 1..Len(outputs) |->
        <<"Script ", ToStr(i), " output:", "\n">> \o outputs[i]]

\* C8 as stated: after a turn in which k > 1 fragments ran, the input sent
\* on the next turn is the k labelled outputs, in extraction order, empty
\* ones included, joined by blank lines.
C8_FeedbackManyBare ==
    [][(FeedbackStep /\ Len(script_outputs) > 1) =>
          queries'[turn] = Join(<<"\n", "\n">>, Labelled(script_outputs))]_vars

\* C8 as amended: after a turn in which k > 1 fragments ran, the input sent
\* on the next turn is the line "Script output:" and a blank line, followed
\* by the k labelled outputs, in extraction order, empty ones included,
\* joined by blank lines.
C8_FeedbackMany ==
    [][(FeedbackStep /\ Len(script_outputs) > 1) =>
          queries'[turn] = <<"Script output:", "\n", "\n">> \o
                           Join(<<"\n", "\n">>, Labelled(script_outputs))]_vars

C8_Witness ==
    /\ pc = "recv"
    /\ turn = 2
    /\ queries[2] = << "Script output:", "\n", "\n",
                       "Script ", "1", " output:", "\n", "\n", "\n",
                       "Script ", "2", " output:", "\n", "o" >>

\* the turn's response has been processed, or the call ended in the turn
TurnOver ==
    /\ turn >= 1
    /\ \/ pc \in {"while", "post"}
       \/ pc = "idle" /\ outcome = "returned"
       \/ pc = "idle" /\ outcome = "raised" /\ execs # <<>>

\* C9: in every turn the executions are the fragments of the concatenated
\* text chunks, each once and in extraction order, each with exactly one
\* outcome; when the turn is over none has been skipped.
C9_ExactlyOnce ==
    /\ Len(execs) <= Len(Fragments)
    /\ \A i \in 1..Len(execs) :
          /\ execs[i].index = i
          /\ execs[i].code = Strip(Fragments[i])
          /\ Len(execs[i].outcome) = 1
    /\ TurnOver => Len(execs) = Len(Fragments)


\* the place of a notification in the order of a turn
Rank(e) ==
    CASE e.ev = "turn_start" -> 0
      [] e.ev = "thinking" -> 1
      [] e.ev \in {"thinking_done", "tool_use", "text"} -> 2
      [] e.ev \in {"script_code", "script_output"} -> 3
      [] e.ev = "result" -> 4
      [] OTHER -> 5

\* the tool-use and text notifications a stream of blocks calls for
RECURSIVE StreamEvents(_)
StreamEvents(blocks) ==
    IF blocks = <<>> THEN <<>>
    ELSE LET b == Head(blocks)
             e == IF b.kind = "tool"
                  THEN <<EvToolUse(b.name, ToolDetails(b))>>
                  ELSE IF Cleaned(b.text) # <<>>
                       THEN <<EvText(Cleaned(b.text))>> ELSE <<>>
         IN  e \o StreamEvents(Tail(blocks))

IsStreamEvent(e) == e.ev \in {"tool_use", "text"}
IsScriptEvent(e) == e.ev \in {"script_code", "script_output"}

\* the script notifications the executions of the turn call for
RECURSIVE ScriptEvents(_)
ScriptEvents(es) ==
    IF es = <<>> THEN <<>>
    ELSE LET e == Head(es)
         IN  <<EvScriptCode(e.code)>> \o
             (IF e.outcome \in {<<>>, << <<>> >>}
              THEN <<>> ELSE <<EvScriptOutput(e.outcome[1])>>) \o
             ScriptEvents(Tail(es))

\* C10: in every turn the sink receives turn-start, then thinking, then the
\* tool-use and text notifications in the order the blocks arrived, then for
\* each fragment, in extraction order, its script-code notification before
\* it runs and its script-output notification (if it printed anything)
\* after; no tool-use or text notification follows a script notification.
C10_TurnOrder ==
    turn >= 1 =>
        LET frags == Fragments
            n == Len(sink)
        IN  /\ n >= 2
            /\ sink[1] = EvTurnStart(turn, max_turns)
            /\ sink[2] = EvThinking
            /\ \A i \in 3..n :
                  /\ Rank(sink[i]) >= 2
                  /\ Rank(sink[i - 1]) <= Rank(sink[i])
            /\ SelectSeq(sink, IsStreamEvent) = StreamEvents(stream)
            /\ SelectSeq(sink, IsScriptEvent) =
                  ScriptEvents(execs) \o
                  (IF pc = "run" THEN <<EvScriptCode(Strip(frags[j]))>> ELSE <<>>)
            /\ \A i \in 1..Len(execs) :
                  /\ execs[i].code = Strip(frags[i])
                  /\ sink[execs[i].at] = EvScriptCode(execs[i].code)
            /\ pc = "run" => sink[n] = EvScriptCode(Strip(frags[j]))

C10_Witness ==
    /\ pc = "while"
    /\ Len(stream) = 2
    /\ stream[1].kind = "tool"
    /\ stream[2].kind = "text"
    /\ Len(execs) = 1
    /\ execs[1].outcome = << <<"o">> >>
    /\ Len(sink) >= 7

IsThinkingDone(e) == e.ev = "thinking_done"

\* the terminal result unit of the turn's response has arrived
ResponseEnded == turn >= 1 /\ pc \in {"exec", "run"}

\* C11: in every turn thinking-done is notified at most once, directly after
\* the turn's thinking notification and so before any tool-use, text or
\* script notification; once the response has ended it has been notified
\* exactly once, whatever the response stream held.
C11_ThinkingDoneOnce ==
    turn >= 1 =>
        LET n == Len(SelectSeq(sink, IsThinkingDone))
        IN  /\ n <= 1
            /\ n = 1 => (Len(sink) >= 3 /\ sink[3] = EvThinkingDone)
            /\ (Len(sink) >= 3 /\ Rank(sink[3]) \in {2, 3}) => n = 1
            /\ ResponseEnded => n = 1

\* ------------------------------------------------------------------------
\* The end-to-end scenario: a scripted agent, sink kept for the whole call
\* ------------------------------------------------------------------------
TraceInput == <<"list the first function">>
TraceCode == <<"print(db.functions[0].name)">>
TraceChecking == <<"Checking...">>
TraceAnswer == <<"That's your first function.">>
Func0 == <<"func_0", "\n">>

\* the first response, text and one fragment, in one text block or in two
TraceFirstResponses ==
    { << TextBlock(TraceChecking \o <<OPEN>> \o TraceCode \o <<CLOSE>>) >>,
      << TextBlock(TraceChecking \o <<"\n", OPEN, "\n">> \o TraceCode \o <<"\n", CLOSE, "\n">>) >>,
      << TextBlock(TraceChecking), TextBlock(<<OPEN>> \o TraceCode \o <<CLOSE>>) >> }

\* what the scripted agent answers on turn t
StubResponses(t) ==
    IF t = 1 THEN TraceFirstResponses ELSE { << TextBlock(TraceAnswer) >> }

TraceOutputs == { Func0, <<>> }

\* the next block of one of the scripted responses arrives
StubRecvText ==
    \E r \in StubResponses(turn) :
        /\ Len(stream) < Len(r)
        /\ SubSeq(r, 1, Len(stream)) = stream
        /\ RecvText(r[Len(stream) + 1])

\* the scripted response is complete
StubRecvResult ==
    /\ stream \in StubResponses(turn)
    /\ RecvResult

InitTrace ==
    /\ max_turns \in 1..(MaxTurnsCap + 1)
    /\ verbose \in BOOLEAN
    /\ history = TRUE
    /\ script_executor = "default"
    /\ sys_stdout = "console"
    /\ worker = NoWorker
    /\ form = NoForm
    /\ LogInit
    /\ CoreInit

NextTrace ==
    \/ Connect
    \/ RequestCancel
    \/ ProcessMessage(TraceInput)
    \/ LoopCancelled
    \/ LoopTurnStartIn(TRUE)
    \/ LoopExit
    \/ Query
    \/ StubRecvText
    \/ StubRecvResult
    \/ NotifyScriptCode
    \/ \E out \in TraceOutputs : RunScript(out)
    \/ FinishResponse
    \/ PostLoop

SpecTrace == InitTrace /\ [][NextTrace]_vars

\* the call of the scenario has returned: two queries, the first one the
\* user's input, one execution, which returned "func_0\n"
TraceScenarioDone ==
    /\ pc = "idle"
    /\ outcome = "returned"
    /\ ~verbose
    /\ max_turns > 2
    /\ Len(queries) = 2
    /\ queries[1] = TraceInput
    /\ Len(execs) = 1
    /\ execs[1].outcome = <<Func0>>

\* C12: for the input "list the first function", a first response of the
\* text "Checking..." and one fragment whose execution returns "func_0\n",
\* and a second response of text only, non-verbose and max_turns > 2, the
\* call returns exactly "func_0\n" and the sink has received exactly
\* turn-start(1), thinking, thinking-done, text, script-code,
\* script-output("func_0\n"), turn-start(2), thinking, thinking-done, text.
C12_Trace ==
    TraceScenarioDone =>
        /\ retval = <<"func_0", "\n">>
        /\ sink = << EvTurnStart(1, max_turns), EvThinking, EvThinkingDone,
                     EvText(<<"Checking...">>), EvScriptCode(TraceCode),
                     EvScriptOutput(<<"func_0", "\n">>),
                     EvTurnStart(2, max_turns), EvThinking, EvThinkingDone,
                     EvText(<<"That's your first function.">>) >>

C12_Witness ==
    /\ TraceScenarioDone
    /\ Len(stream) = 1
    /\ Len(sink) = 10
    /\ Len(full_text) = 1

\* ------------------------------------------------------------------------
\* Responses whose text blocks cut a fragment: the open delimiter in one
\* block, the close delimiter in the next
\* ------------------------------------------------------------------------
SplitChunks ==
    { <<"a", OPEN, "x">>,
      <<"y", CLOSE>>,
      <<OPEN, "z", CLOSE>> }

SplitBlocks == {TextBlock(t) : t \in SplitChunks}

NextSplit ==
    \/ Connect
    \/ \E u \in UserInputs : ProcessMessage(u)
    \/ LoopTurnStart
    \/ LoopExit
    \/ Query
    \/ \E b \in SplitBlocks : RecvText(b)
    \/ RecvResult
    \/ NotifyScriptCode
    \/ \E out \in Outputs : RunScript(out)
    \/ FinishResponse
    \/ PostLoop

SpecSplit == Init /\ [][NextSplit]_vars

Tokens(s) == {s[i] : i \in DOMAIN s}

\* the texts shown as prose in the turn: passed to on_text, or logged as an
\* assistant message
ProseShown ==
    {sink[i].text : i \in {k \in DOMAIN sink : sink[k].ev = "text"}} \cup
    {hist[i].text : i \in {k \in DOMAIN hist : hist[k].type = "assistant"}}

\* C13: no text passed to on_text or logged as an assistant message holds
\* any part of the content of a fragment executed in that turn, however the
\* response text is cut into blocks.
C13_NoScriptProse ==
    \A k \in DOMAIN execs : \A t \in ProseShown :
        Tokens(t) \cap Tokens(execs[k].code) = {}

\* ------------------------------------------------------------------------
\* The connection's life: connect may fail after the client is stored
\* ------------------------------------------------------------------------
ProseBlocks == { TextBlock(<<"a">>) }

NextConnect ==
    \/ Connect
    \/ ConnectFails
    \/ Disconnect
    \/ RequestCancel
    \/ ProcessMessageNotConnected
    \/ \E u \in UserInputs : ProcessMessage(u)
    \/ LoopCancelled
    \/ LoopTurnStart
    \/ LoopExit
    \/ Query
    \/ QueryRaises
    \/ \E b \in ProseBlocks : RecvText(b)
    \/ RecvResult
    \/ RecvRaises
    \/ FinishResponse
    \/ PostLoop

SpecConnect == Init /\ [][NextConnect]_vars

\* a call of process_message begins: the loop is entered, or the call is
\* over at once with a new outcome
CallStep == pc = "idle" /\ client' = client /\ <<pc, outcome>>' # <<pc, outcome>>

\* C14: a call of process_message made while the core has no connected
\* client raises at once: no notification, no session-log entry, no query,
\* and the cancellation flag is left as it was.
C14_NoClientRaises ==
    [][(CallStep /\ client # "connected") =>
            /\ pc' = "idle"
            /\ outcome' = "raised"
            /\ UNCHANGED <<sink, hist, queries, cancelled>>]_vars

\* the transport raises while the query is sent or the response is streamed
TransportError == pc \in {"query", "recv"} /\ pc' = "idle"

\* C15: an error raised by the agent transport during a turn does not reach
\* the caller of process_message: the call does not end by an exception.
C15_TransportErrorCaptured ==
    [][TransportError => outcome' # "raised"]_vars

\* ------------------------------------------------------------------------
\* The two script executors, on scripts that print, fail and exit
\* ------------------------------------------------------------------------
ScriptPrint == <<"p">>      \* print("o")
ScriptFail == <<"r">>       \* raise ValueError("e")
ScriptExit == <<"q">>       \* sys.exit(), raise KeyboardInterrupt

\* exec(code, {"db": ..., "print": print}): how the script ends, what it
\* printed, the message of its exception
Exec(code) ==
    CASE code = ScriptPrint ->
            [ends |-> "ok", printed |-> <<"o">>, message |-> <<>>]
      [] code = ScriptFail ->
            [ends |-> "Exception", printed |-> <<>>, message |-> <<"e">>]
      [] code = ScriptExit ->
            [ends |-> "BaseException", printed |-> <<>>, message |-> <<>>]
      [] OTHER ->
            [ends |-> "ok", printed |-> <<>>, message |-> <<>>]

ScriptErrorPrefix == "Script error: "

\* _default_execute_script: the captured output; the error string for what
\* "except Exception" catches; anything else leaves the executor
DefaultExecuteScript(code) ==
    LET r == Exec(code)
    IN  CASE r.ends = "ok" -> [returns |-> TRUE, value |-> r.printed]
          [] r.ends = "Exception" ->
                [returns |-> TRUE, value |-> <<ScriptErrorPrefix>> \o r.message]
          [] OTHER -> [returns |-> FALSE, value |-> <<>>]

\* execute_on_main_thread: run_script stores the captured output or the
\* error string in result[0]; an exception that "except Exception" does not
\* catch ends run_script on the main thread and cannot cross execute_sync,
\* so result[0] keeps its initial ""
ExecuteOnMainThread(code) ==
    LET r == Exec(code)
    IN  CASE r.ends = "ok" -> [returns |-> TRUE, value |-> r.printed]
          [] r.ends = "Exception" ->
                [returns |-> TRUE, value |-> <<ScriptErrorPrefix>> \o r.message]
          [] OTHER -> [returns |-> TRUE, value |-> <<>>]

\* line 332: output = self._execute_script(code)
ExecuteScript ==
    /\ pc = "run"
    /\ LET r == IF script_executor = "default"
                THEN DefaultExecuteScript(ScriptCode(j))
                ELSE ExecuteOnMainThread(ScriptCode(j))
       IN  IF r.returns THEN RunScript(r.value) ELSE RunScriptRaises

\* one fragment that prints, one that fails, one that exits followed by one
\* that prints
ExecChunks ==
    { <<OPEN>> \o ScriptPrint \o <<CLOSE>>,
      <<OPEN>> \o ScriptFail \o <<CLOSE>>,
      <<OPEN>> \o ScriptExit \o <<CLOSE, OPEN>> \o ScriptPrint \o <<CLOSE>> }

ExecBlocks == {TextBlock(t) : t \in ExecChunks}

Streams == {"console", "log_file"}

\* the two constructions of the repository: the CLI (default executor, no
\* session log) and the plugin (main-thread executor, session log)
InitExec ==
    /\ max_turns \in 0..MaxTurnsCap
    /\ verbose = FALSE
    /\ script_executor \in {"default", "main_thread"}
    /\ history = (script_executor = "main_thread")
    /\ sys_stdout \in Streams
    /\ worker = NoWorker
    /\ form = NoForm
    /\ LogInit
    /\ CoreInit

NextExec ==
    \/ Connect
    \/ \E u \in UserInputs : ProcessMessage(u)
    \/ LoopTurnStart
    \/ LoopExit
    \/ Query
    \/ \E b \in ExecBlocks : RecvText(b)
    \/ RecvResult
    \/ NotifyScriptCode
    \/ ExecuteScript
    \/ FinishResponse
    \/ PostLoop

SpecExec == InitExec /\ [][NextExec]_vars

IsScriptError(out) == out # <<>> /\ out[1] = "Script error: "

\* C17: every execution returns a string to the turn loop, whatever the
\* script raised, and the string has the form "Script error: <message>"
\* whenever the script raised an exception of any kind.
C17_ExecutorNeverRaises ==
    \A k \in DOMAIN execs :
        /\ Len(execs[k].outcome) = 1
        /\ Exec(execs[k].code).ends # "ok" => IsScriptError(execs[k].outcome[1])

C19_ExecutorsAgree ==
    \A k \in DOMAIN execs :
        LET d == DefaultExecuteScript(execs[k].code)
            m == ExecuteOnMainThread(execs[k].code)
        IN  /\ d = m
            /\ execs[k].outcome = IF d.returns THEN <<d.value>> ELSE <<>>

\* q holds e as a contiguous part
Contains(q, e) ==
    \E i \in 0..(Len(q) - Len(e)) : SubSeq(q, i + 1, i + Len(e)) = e

\* C20: when an execution yields "Script error: <message>", the string is
\* given to the sink in a script-output notification right after the
\* script's code, every fragment of the turn is executed by the time the
\* turn is over, and the string is part of the input of the next turn.
C20_ScriptErrorNotFatal ==
    /\ [](\A k \in DOMAIN execs :
            (Len(execs[k].outcome) = 1 /\ IsScriptError(execs[k].outcome[1])) =>
                /\ sink[execs[k].at + 1] = EvScriptOutput(execs[k].outcome[1])
                /\ TurnOver => Len(execs) = Len(Fragments))
    /\ [][FeedbackStep =>
            \A i \in DOMAIN script_outputs :
                IsScriptError(script_outputs[i]) =>
                    Contains(queries'[turn], script_outputs[i])]_vars

\* ------------------------------------------------------------------------
\* The plugin: AgentWorker around a core with the main-thread executor
\* ------------------------------------------------------------------------
coreVars == <<cfg, logVars, client, cancelled, pc, loopVars, respVars, obsVars, retval,
              cancelWindow, sys_stdout>>

\* request_connect, from the UI thread
RequestConnect ==
    /\ worker.thread = "off"
    /\ ~worker.core
    /\ ~worker.should_connect
    /\ worker' = [worker EXCEPT !.should_connect = TRUE, !.thread = "start"]
    /\ UNCHANGED <<coreVars, outcome>>

\* send_message, from the UI thread; the thread is started if it is not
\* running.  Here a message is sent when the slot is empty and no call is
\* in progress; what the form lets through besides is followed in
\* SpecPlugin
SendMessage(message) ==
    /\ worker.sent < MaxMessages
    /\ worker.pending = <<>>
    /\ worker.thread \in {"off", "loop"}
    /\ worker' = [worker EXCEPT
                    !.pending = <<message>>,
                    !.sent = @ + 1,
                    !.thread = IF @ = "off" THEN "start" ELSE @]
    /\ UNCHANGED <<coreVars, outcome>>

\* request_disconnect, from the UI thread
RequestDisconnect ==
    /\ worker.running
    /\ worker.thread # "call"
    /\ worker' = [worker EXCEPT !.running = FALSE]
    /\ UNCHANGED <<coreVars, outcome>>

\* lines 858-862: setting up the session or the core raises
WorkerSetupFails ==
    /\ worker.thread = "start"
    /\ worker.should_connect
    /\ worker' = [worker EXCEPT !.should_connect = FALSE, !.thread = "off"]
    /\ UNCHANGED <<coreVars, outcome>>

\* lines 858-870: the core is created and stored; its connect is awaited
WorkerCreateCore ==
    /\ worker.thread = "start"
    /\ worker.should_connect
    /\ worker' = [worker EXCEPT !.should_connect = FALSE, !.core = TRUE,
                                !.thread = "connect"]
    /\ UNCHANGED <<coreVars, outcome>>

\* line 871: connection_ready, on to the message loop
WorkerConnected ==
    /\ worker.thread = "connect"
    /\ client = "connected"
    /\ worker' = [worker EXCEPT !.thread = "loop"]
    /\ UNCHANGED <<coreVars, outcome>>

\* lines 872-874: connection_error, and _async_run returns
WorkerConnectError ==
    /\ worker.thread = "connect"
    /\ client = "created"
    /\ worker' = [worker EXCEPT !.thread = "off"]
    /\ UNCHANGED <<coreVars, outcome>>

\* lines 857, 877: no connection requested, on to the message loop
WorkerEnterLoop ==
    /\ worker.thread = "start"
    /\ ~worker.should_connect
    /\ worker' = [worker EXCEPT !.thread = "loop"]
    /\ UNCHANGED <<coreVars, outcome>>

\* lines 883-887: the pending message is taken and process_message is
\* called on self.core (an AttributeError at once if there is no core)
WorkerTake ==
    /\ worker.thread = "loop"
    /\ worker.running
    /\ worker.pending # <<>>
    /\ worker' = [worker EXCEPT !.message = worker.pending[1], !.pending = <<>>,
                                !.taken = @ + 1, !.thread = "call"]
    /\ outcome' = IF worker.core THEN "none" ELSE "raised"
    /\ UNCHANGED coreVars

\* the finished signal only after a call that returned
WorkerAfterCall_FinishedOnSuccess ==
    /\ worker.thread = "call"
    /\ pc = "idle"
    /\ outcome # "none"
    /\ worker' = [worker EXCEPT
                    !.errors = IF outcome = "raised" THEN @ + 1 ELSE @,
                    !.finished = IF outcome = "raised" THEN @ ELSE @ + 1,
                    !.thread = "loop"]
    /\ UNCHANGED <<coreVars, outcome>>

\* lines 886-890: the call is over; an Exception is emitted on the error
\* signal; the finished signal is emitted
WorkerAfterCall ==
    /\ worker.thread = "call"
    /\ pc = "idle"
    /\ outcome # "none"
    /\ worker' = [worker EXCEPT
                    !.errors = IF outcome = "raised" THEN @ + 1 ELSE @,
                    !.finished = @ + 1,
                    !.thread = "loop"]
    /\ UNCHANGED <<coreVars, outcome>>

\* lines 877, 892-894: the loop ends on a disconnect request
WorkerLeaveLoop ==
    /\ worker.thread = "loop"
    /\ ~worker.running
    /\ worker' = [worker EXCEPT !.thread = "exit"]
    /\ UNCHANGED <<coreVars, outcome>>

\* lines 899-901: the core, if any, has been disconnected; the thread ends
WorkerStopped ==
    /\ worker.thread = "exit"
    /\ (~worker.core \/ client = "none")
    /\ worker' = [worker EXCEPT !.thread = "off"]
    /\ UNCHANGED <<coreVars, outcome>>

\* the worker is awaiting self.core.process_message and it has not begun
CallDue == worker.thread = "call" /\ pc = "idle" /\ outcome = "none"

WorkerBlocks == { TextBlock(<<"a">>), TextBlock(<<OPEN>> \o ScriptPrint \o <<CLOSE>>) }

InitWorker ==
    /\ max_turns \in 1..MaxTurnsCap
    /\ verbose = FALSE
    /\ history = TRUE
    /\ script_executor = "main_thread"
    /\ sys_stdout = "console"
    /\ worker = NoWorker
    /\ form = NoForm
    /\ LogInit
    /\ CoreInit

\* the steps of the UI thread
UIStep ==
    \/ RequestConnect
    \/ \E u \in UserInputs : SendMessage(u)
    \/ RequestDisconnect
    \/ worker.core /\ RequestCancel

\* the steps of the worker thread, the awaited calls of the core included
WorkerStep ==
    \/ WorkerSetupFails
    \/ WorkerCreateCore
    \/ worker.thread = "connect" /\ client = "none" /\ Connect
    \/ worker.thread = "connect" /\ client = "none" /\ ConnectFails
    \/ WorkerConnected
    \/ WorkerConnectError
    \/ WorkerEnterLoop
    \/ WorkerTake
    \/ CallDue /\ ProcessMessage(worker.message)
    \/ LoopCancelled
    \/ LoopTurnStart
    \/ LoopExit
    \/ Query
    \/ QueryRaises
    \/ \E b \in WorkerBlocks : RecvText(b)
    \/ RecvResult
    \/ RecvRaises
    \/ NotifyScriptCode
    \/ ExecuteScript
    \/ FinishResponse
    \/ PostLoop
    \/ WorkerAfterCall
    \/ WorkerLeaveLoop
    \/ worker.thread = "exit" /\ Disconnect
    \/ WorkerStopped

NextWorker == UIStep \/ WorkerStep

\* the worker thread is scheduled: a step it can take is taken in the end
SpecWorker == InitWorker /\ [][NextWorker]_vars /\ WF_vars(WorkerStep)

\* process_message has ended under the worker, and the worker goes on
CallEnds == worker.thread = "call" /\ worker'.thread # "call"

CallResponses ==
    { << ToolUseBlock("Read", [file_path |-> "f"]), TextBlock(<<"a">>) >>,
      << TextBlock(<<"a">>), ToolUseBlock("Read", [file_path |-> "f"]) >>,
      << TextBlock(<<OPEN, "x", CLOSE>>) >>,
      << TextBlock(<<"b", OPEN, " ", "y", CLOSE, " ">>),
         TextBlock(<<OPEN, "x", CLOSE>>) >> }

\* the blocks that may arrive next: those continuing one of the responses
CallNextBlocks ==
    { r[Len(stream) + 1] :
        r \in { q \in CallResponses : /\ Len(stream) < Len(q)
                                      /\ SubSeq(q, 1, Len(stream)) = stream } }

CallRecvToolUse == \E b \in CallNextBlocks : RecvToolUse(b)

CallRecvText == \E b \in CallNextBlocks : RecvText(b)

\* the response is complete
CallRecvResult ==
    /\ stream \in CallResponses
    /\ RecvResult

InitCall ==
    /\ max_turns \in 0..MaxTurnsCap
    /\ verbose = FALSE
    /\ history = TRUE
    /\ script_executor = "default"
    /\ sys_stdout = "console"
    /\ worker = NoWorker
    /\ form = NoForm
    /\ LogInit
    /\ CoreInit

NextCall ==
    \/ Connect
    \/ RequestCancel
    \/ ProcessMessageNotConnected
    \/ \E u \in UserInputs : ProcessMessage(u)
    \/ LoopCancelled
    \/ LoopTurnStartIn(TRUE)
    \/ LoopExit
    \/ Query
    \/ QueryRaises
    \/ CallRecvToolUse
    \/ CallRecvText
    \/ CallRecvResult
    \/ NotifyScriptCode
    \/ \E out \in Outputs : RunScript(out)
    \/ RunScriptRaises
    \/ FinishResponse
    \/ PostLoop

SpecCall == InitCall /\ [][NextCall]_vars

\* the captured outputs of the executions of the call, in execution order
CapturedOutputs == [i \in 1..Len(execs) |-> execs[i].outcome[1]]

\* C21: the value a call returns is the outputs of all the fragments the
\* call executed, over all its turns and in execution order, joined by
\* newlines; it is the empty string when the call executed none.
C21_ReturnValue ==
    (pc = "idle" /\ outcome = "returned") =>
        /\ \A i \in 1..Len(execs) : execs[i].outcome # <<>>
        /\ retval = (IF execs = <<>> THEN <<>> ELSE Join(NL, CapturedOutputs))

\* a call stopped at the turn limit after two turns returns the three
\* outputs of those turns
C21_Witness ==
    /\ pc = "idle"
    /\ outcome = "returned"
    /\ obs.maxTurnErrors = 1
    /\ turn = 2
    /\ Len(execs) = 3
    /\ retval = <<"o", "\n", "\n", "o">>

\* the input the call was made with
OriginalInput == IF queries # <<>> THEN queries[1] ELSE current_input

\* the log of the call starts with the user's message and holds no other
\* user text entry
UserLogged ==
    /\ hist # <<>>
    /\ hist[1] = LogUser(OriginalInput)
    /\ \A i \in 2..Len(hist) : hist[i].type # "user"

\* a call has got past the client check of lines 366-367
CallAccepted ==
    \/ pc # "idle"
    \/ outcome = "returned"
    \/ outcome = "raised" /\ turn >= 1

\* C29 as stated: every call of process_message on a core with a session
\* log writes exactly one user text entry, the original message, before
\* any notification and before any other entry of the call.
C29_UserEntryEveryCall ==
    (pc # "idle" \/ outcome # "none") => UserLogged

\* C29: every call of process_message that finds a client, on a core with
\* a session log, writes exactly one user text entry, the original
\* message: it is the first entry of the call's log, it is there before the
\* first notification, and no input fed back on a later turn is logged as
\* a user text entry.  A call refused for want of a client logs nothing.
C29_UserEntryOnce ==
    /\ CallAccepted => UserLogged
    /\ ~CallAccepted => hist = <<>> /\ sink = <<>>

\* a call has sent the user's input and then a feedback input, and its
\* log holds the one user entry, a script pair, a tool use and a text
C29_Witness ==
    /\ pc = "idle"
    /\ outcome = "returned"
    /\ Len(queries) = 2
    /\ queries[2] # queries[1]
    /\ hist[1] = LogUser(queries[1])
    /\ Len(hist) = 5

\* what the sink was told and what the log holds, as the same items: a
\* tool use by its name, a text by its content, a fragment by its code
RECURSIVE SinkItems(_)
SinkItems(es) ==
    IF es = <<>> THEN <<>>
    ELSE (CASE Head(es).ev = "tool_use" -> << <<"tool_use", <<Head(es).name>> >> >>
            [] Head(es).ev = "text" -> << <<"text", Head(es).text>> >>
            [] Head(es).ev = "script_code" -> << <<"script", Head(es).code>> >>
            [] OTHER -> <<>>)
         \o SinkItems(Tail(es))

RECURSIVE LogItems(_)
LogItems(h) ==
    IF h = <<>> THEN <<>>
    ELSE IF Head(h).type = "tool_use" /\ Head(h).name = "IDAPythonExec"
         THEN IF Len(h) >= 2 /\ h[2].type = "tool_result"
              THEN << <<"script", Head(h).input.code>> >> \o LogItems(Tail(Tail(h)))
              ELSE << <<"unpaired", <<>> >> >> \o LogItems(Tail(h))
    ELSE (CASE Head(h).type = "tool_use" -> << <<"tool_use", <<Head(h).name>> >> >>
            [] Head(h).type = "assistant" -> << <<"text", Head(h).text>> >>
            [] Head(h).type = "tool_result" -> << <<"unpaired", <<>> >> >>
            [] OTHER -> <<>>)
         \o LogItems(Tail(h))

\* the fragment whose code has been shown is being executed, or its
\* execution raised through the call
ScriptInHand == pc = "run" \/ (pc = "idle" /\ outcome = "raised")

\* C30: within a call the log holds the tool uses, the assistant texts and
\* the script pairs (tool use, then its result) in the order in which the
\* sink was told of them; every on_tool_use and every on_text has its one
\* log entry as soon as it is emitted, and a fragment has its pair once its
\* execution has returned.
C30_LogFollowsSink ==
    LET s == SinkItems(sink)
        l == LogItems(hist)
    IN  \/ l = s
        \/ /\ ScriptInHand
           /\ s # <<>>
           /\ s[Len(s)][1] = "script"
           /\ l = SubSeq(s, 1, Len(s) - 1)

\* two turns: a text with a fragment and a second fragment, then a tool use
\* and a text
C30_Witness ==
    /\ pc = "idle"
    /\ outcome = "returned"
    /\ turn = 2
    /\ LogItems(hist) = << <<"text", <<"b">> >>, <<"script", <<"y">> >>,
                           <<"script", <<"x">> >>, <<"tool_use", <<"Read">> >>,
                           <<"text", <<"a">> >> >>
    /\ SinkItems(sink) = LogItems(hist)

\* ------------------------------------------------------------------------
\* MessageHistory (ida_chat_history.py): the session files
\* ------------------------------------------------------------------------
\* A file is the sequence of the tokens written to it; a line ends with
\* the token "\n".  An entry is a record of the fields that differ between
\* entries: uuid, parentUuid, sessionId, type, and of the one content item
\* its kind, name, id (tool_use_id), text and is_error; a field the kind
\* does not have is empty.  timestamp, version, cwd, model and the message
\* id take no part in what is modelled here.

QUOTE == "\""
BACKSLASH == "\\"
\* a byte sequence that is not UTF-8, such as the first half of a
\* character cut by a torn write
BadByte == "<ff>"

FromStr(t) ==
    CASE t = "0" -> 0 [] t = "1" -> 1 [] t = "2" -> 2 [] t = "3" -> 3
      [] t = "4" -> 4 [] t = "5" -> 5 [] t = "6" -> 6 [] t = "7" -> 7
      [] t = "8" -> 8 [] OTHER -> 9

IsDigit(t) == t \in {"0", "1", "2", "3", "4", "5", "6", "7", "8", "9"}

\* json.dumps of a string leaves no raw newline, quote or backslash in it
EscapeToken_Raw(t) == <<t>>

EscapeToken(t) ==
    IF t = "\n" THEN <<BACKSLASH, "n">>
    ELSE IF t \in {QUOTE, BACKSLASH} THEN <<BACKSLASH, t>>
    ELSE <<t>>

RECURSIVE Escape(_)
Escape(s) == IF s = <<>> THEN <<>> ELSE EscapeToken(Head(s)) \o Escape(Tail(s))

Quoted(s) == <<QUOTE>> \o Escape(s) \o <<QUOTE>>

\* line 351: json.dumps(entry, ensure_ascii=False), the entry on one line
Dump(entry) ==
    << "{", ToStr(entry.uuid),
       IF entry.parentUuid = 0 THEN "null" ELSE ToStr(entry.parentUuid),
       ToStr(entry.sessionId), entry.type, entry.kind, entry.name >>
    \o Quoted(entry.id) \o Quoted(entry.text)
    \o << IF entry.is_error THEN "true" ELSE "false", "}" >>

\* json.loads of a string literal that opens at position i - 1: the text up
\* to the closing quote and the position after it
RECURSIVE ScanString(_, _, _)
ScanString(line, i, acc) ==
    IF i > Len(line) THEN [ok |-> FALSE, text |-> acc, next |-> i]
    ELSE IF line[i] = QUOTE THEN [ok |-> TRUE, text |-> acc, next |-> i + 1]
    ELSE IF line[i] = BACKSLASH
         THEN IF i + 1 > Len(line)
              THEN [ok |-> FALSE, text |-> acc, next |-> i]
              ELSE ScanString(line, i + 2,
                     Append(acc, IF line[i + 1] = "n" THEN "\n" ELSE line[i + 1]))
    ELSE ScanString(line, i + 1, Append(acc, line[i]))

JSONDecodeError == [ok |-> FALSE]

\* json.loads(line): the entry, or JSONDecodeError for a line that is not
\* one complete object
Loads(line) ==
    LET n == Len(line)
    IN  IF n < 13 \/ line[1] # "{" \/ line[n] # "}" \/ line[8] # QUOTE
           \/ ~IsDigit(line[2]) \/ ~(IsDigit(line[3]) \/ line[3] = "null")
           \/ ~IsDigit(line[4]) \/ line[n - 1] \notin {"true", "false"}
        THEN JSONDecodeError
        ELSE LET a == ScanString(line, 9, <<>>)
             IN  IF ~a.ok \/ a.next >= n \/ line[a.next] # QUOTE
                 THEN JSONDecodeError
                 ELSE LET b == ScanString(line, a.next + 1, <<>>)
                      IN  IF ~b.ok \/ b.next # n - 1 THEN JSONDecodeError
                          ELSE [ok |-> TRUE,
                                entry |->
                                  [uuid |-> FromStr(line[2]),
                                   parentUuid |-> IF line[3] = "null" THEN 0
                                                  ELSE FromStr(line[3]),
                                   sessionId |-> FromStr(line[4]),
                                   type |-> line[5], kind |-> line[6],
                                   name |-> line[7], id |-> a.text,
                                   text |-> b.text,
                                   is_error |-> line[n - 1] = "true"]]

\* "for line in f": the content cut after each "\n"
RECURSIVE SplitLines(_)
SplitLines(content) ==
    LET p == IndexFrom(content, "\n", 1)
    IN  IF content = <<>> THEN <<>>
        ELSE IF p = 0 THEN <<content>>
        ELSE <<SubSeq(content, 1, p)>>
             \o SplitLines(SubSeq(content, p + 1, Len(content)))

\* open(..., "r", encoding="utf-8") raises UnicodeDecodeError on reading
\* bytes that are not UTF-8
Undecodable(content) == \E i \in DOMAIN content : content[i] = BadByte

\* lines 372-378, 401-407: the lines stripped, the empty ones dropped, each
\* parsed
ParsedLines(content) ==
    LET lines == SplitLines(content)
        stripped == [i \in DOMAIN lines |-> Strip(lines[i])]
    IN  [i \in DOMAIN lines |->
           IF stripped[i] = <<>> THEN [ok |-> FALSE, blank |-> TRUE]
           ELSE Loads(stripped[i])]

\* the entries of the lines that parsed, in file order
RECURSIVE Parsed(_)
Parsed(ps) ==
    IF ps = <<>> THEN <<>>
    ELSE (IF Head(ps).ok THEN <<Head(ps).entry>> ELSE <<>>) \o Parsed(Tail(ps))

\* lines 365-380
LoadSessionFrom(fs, id) ==
    IF id \notin DOMAIN fs THEN [raised |-> FALSE, value |-> <<>>]
    ELSE IF Undecodable(fs[id]) THEN [raised |-> TRUE, value |-> <<>>]
    ELSE [raised |-> FALSE, value |-> Parsed(ParsedLines(fs[id]))]

\* lines 412-421: the text of the first user entry that has a text item
RECURSIVE FirstUserMessage(_)
FirstUserMessage(entries) ==
    IF entries = <<>> THEN <<"(empty)">>
    ELSE IF Head(entries).type = "user" /\ Head(entries).kind = "text"
         THEN IF Head(entries).text = <<>> THEN <<"(empty)">>
              ELSE Head(entries).text
         ELSE FirstUserMessage(Tail(entries))

\* sorted(glob("*.jsonl"), reverse=True): the file names, largest first
RECURSIVE Descending(_)
Descending(ids) ==
    IF ids = {} THEN <<>>
    ELSE LET m == CHOOSE x \in ids : \A y \in ids : y <= x
         IN  <<m>> \o Descending(ids \ {m})

\* lines 388-432
ListSessionsFrom(fs) ==
    LET ids == Descending(DOMAIN fs)
    IN  IF \E f \in DOMAIN fs : Undecodable(fs[f])
        THEN [raised |-> TRUE, value |-> <<>>]
        ELSE [raised |-> FALSE,
              value |-> [i \in DOMAIN ids |->
                           LET entries == Parsed(ParsedLines(fs[ids[i]]))
                           IN  [id |-> ids[i],
                                first_message |-> FirstUserMessage(entries),
                                message_count |-> Len(entries)]]]

\* ------------------------------------------------------------------------
\* MessageHistory: the operations
\* ------------------------------------------------------------------------
MaxEntries == 3     \* entries appended to the session files
MaxSessions == 2    \* sessions started

\* the object and its directory, as the operations below transform them
Self ==
    [session_id |-> session_id, session_file |-> session_file,
     parent_uuid |-> parent_uuid, files |-> files, uuids |-> uuids,
     written |-> written, raised |-> FALSE]

\* the missing session passed over in silence
NoActiveSession_Silent(h) == h

\* raise RuntimeError("No active session. ...")
NoActiveSession(h) == [h EXCEPT !.raised = TRUE]

\* open(file, "w") and write: the file holds the latest write only
AppendTo_Truncating(fs, f, x) ==
    IF f \in DOMAIN fs THEN [fs EXCEPT ![f] = x] ELSE fs @@ (f :> x)

\* open(file, "a") and write: the file is created by the first write
AppendTo(fs, f, x) ==
    IF f \in DOMAIN fs THEN [fs EXCEPT ![f] = @ \o x] ELSE fs @@ (f :> x)

\* _write_entry that does not move _parent_uuid
WriteEntry_NoChain(h, entry) ==
    IF h.session_file = 0 THEN NoActiveSession(h)
    ELSE [h EXCEPT
            !.files = AppendTo(h.files, h.session_file, Dump(entry) \o <<"\n">>),
            !.written = AppendTo(h.written, h.session_file, <<entry>>)]

\* lines 341-354
WriteEntry(h, entry) ==
    IF h.session_file = 0 THEN NoActiveSession(h)
    ELSE [h EXCEPT
            !.files = AppendTo(h.files, h.session_file, Dump(entry) \o <<"\n">>),
            !.written = AppendTo(h.written, h.session_file, <<entry>>),
            !.parent_uuid = entry.uuid]

\* lines 88-90: a uuid no earlier call returned
GenerateUuid(h) == h.uuids + 1

\* lines 96-109, with the content item of the entry
CreateEntry(h, type, kind, name, id, text, is_error) ==
    [uuid |-> GenerateUuid(h), parentUuid |-> h.parent_uuid,
     sessionId |-> h.session_id, type |-> type, kind |-> kind,
     name |-> name, id |-> id, text |-> text, is_error |-> is_error]

\* the guard, the entry and the write that every append is made of
AppendEntry(h, type, kind, name, id, text, is_error) ==
    IF h.session_file = 0 THEN NoActiveSession(h)
    ELSE WriteEntry([h EXCEPT !.uuids = @ + 1],
                    CreateEntry(h, type, kind, name, id, text, is_error))

\* lines 111-131
AppendUserMessageOn(h, content) ==
    AppendEntry(h, "user", "text", "", <<>>, content, FALSE)

\* lines 133-166
AppendAssistantMessageOn(h, content) ==
    AppendEntry(h, "assistant", "text", "", <<>>, content, FALSE)

\* "toolu_" and a fresh uuid
ToolUseId(h) == <<"toolu_", ToStr(GenerateUuid(h))>>

\* lines 168-207; tool_use_id <<>> stands for None
AppendToolUseOn(h, tool_name, tool_input, tool_use_id) ==
    IF h.session_file = 0 THEN NoActiveSession(h)
    ELSE IF tool_use_id = <<>>
         THEN AppendEntry([h EXCEPT !.uuids = @ + 1], "assistant", "tool_use",
                          tool_name, ToolUseId(h), tool_input, FALSE)
         ELSE AppendEntry(h, "assistant", "tool_use", tool_name, tool_use_id,
                          tool_input, FALSE)

\* lines 209-247
AppendToolResultOn(h, tool_use_id, res, is_error) ==
    AppendEntry(h, "user", "tool_result", "", tool_use_id, res, is_error)

\* lines 249-275
AppendThinkingOn(h, thinking) ==
    AppendEntry(h, "assistant", "thinking", "", <<>>, thinking, FALSE)

\* lines 277-304
AppendSystemMessageOn(h, content) ==
    AppendEntry(h, "system", "system", "", <<>>, content, FALSE)

\* the composite with a second generated id for the result
AppendScriptExecutionOn_TwoIds(h, code, output, is_error) ==
    LET tool_use_id == ToolUseId(h)
        h1 == AppendToolUseOn([h EXCEPT !.uuids = @ + 1], "IDAPythonExec",
                              code, tool_use_id)
    IN  IF h1.raised THEN h1
        ELSE AppendToolResultOn([h1 EXCEPT !.uuids = @ + 1], ToolUseId(h1),
                                output, is_error)

\* lines 306-339
AppendScriptExecutionOn(h, code, output, is_error) ==
    LET tool_use_id == ToolUseId(h)
        h1 == AppendToolUseOn([h EXCEPT !.uuids = @ + 1], "IDAPythonExec",
                              code, tool_use_id)
    IN  IF h1.raised THEN h1
        ELSE AppendToolResultOn(h1, tool_use_id, output, is_error)

\* the object and its directory become h; a uuid generated by an operation
\* that then raised is in no entry and is not counted
Becomes(op, h) ==
    /\ session_id' = h.session_id
    /\ session_file' = h.session_file
    /\ parent_uuid' = h.parent_uuid
    /\ files' = h.files
    /\ written' = h.written
    /\ uuids' = IF h.raised THEN uuids ELSE h.uuids
    /\ result' = [op |-> op, arg |-> 0, raised |-> h.raised, value |-> <<>>]

\* everything but the MessageHistory and its files
nonLogVars == <<cfg, client, cancelled, pc, loopVars, respVars, obsVars, endVars,
                cancelWindow, procVars>>

RECURSIVE CountIn(_, _)
CountIn(w, fs) ==
    IF fs = {} THEN 0
    ELSE LET f == CHOOSE x \in fs : TRUE
         IN  Len(w[f]) + CountIn(w, fs \ {f})

\* how many entries have been written to all the files
EntryCount == CountIn(written, DOMAIN written)

\* there is room in the model for n more entries and k more uuids
CanAppend(n, k) ==
    /\ EntryCount + n <= MaxEntries
    /\ uuids + k <= 2 * MaxEntries + 1

\* lines 71-86: a new id, the chain reset, the directory made; the file is
\* named, not created
StartNewSessionOn ==
    /\ started < MaxSessions
    /\ started' = started + 1
    /\ session_id' = started + 1
    /\ parent_uuid' = 0
    /\ session_file' = started + 1
    /\ result' = [op |-> "start_new_session", arg |-> 0, raised |-> FALSE,
                  value |-> <<started + 1>>]
    /\ UNCHANGED <<files, written, uuids>>

StartNewSession ==
    /\ StartNewSessionOn
    /\ UNCHANGED nonLogVars

\* the texts given to the operations: the turn loop passes the user's
\* input (core line 374), the cleaned text of a block (314), a tool's name
\* and input (301), a fragment's code and output (340)
HistoryText == <<"a", "\n", BACKSLASH, "n", QUOTE>>
HistoryResults == { [output |-> <<"o", "\n">>, is_error |-> FALSE],
                    [output |-> <<>>, is_error |-> TRUE] }
GivenId == <<"t">>

AppendUserMessage(content) ==
    /\ CanAppend(1, 1)
    /\ Becomes("append_user_message", AppendUserMessageOn(Self, content))
    /\ UNCHANGED <<started, nonLogVars>>

AppendAssistantMessage(content) ==
    /\ CanAppend(1, 1)
    /\ Becomes("append_assistant_message", AppendAssistantMessageOn(Self, content))
    /\ UNCHANGED <<started, nonLogVars>>

AppendToolUse(tool_name, tool_input, tool_use_id) ==
    /\ CanAppend(1, 2)
    /\ Becomes("append_tool_use",
               AppendToolUseOn(Self, tool_name, tool_input, tool_use_id))
    /\ UNCHANGED <<started, nonLogVars>>

AppendToolResult(tool_use_id, res, is_error) ==
    /\ CanAppend(1, 1)
    /\ Becomes("append_tool_result",
               AppendToolResultOn(Self, tool_use_id, res, is_error))
    /\ UNCHANGED <<started, nonLogVars>>

AppendThinking(thinking) ==
    /\ CanAppend(1, 1)
    /\ Becomes("append_thinking", AppendThinkingOn(Self, thinking))
    /\ UNCHANGED <<started, nonLogVars>>

AppendSystemMessage(content) ==
    /\ CanAppend(1, 1)
    /\ Becomes("append_system_message", AppendSystemMessageOn(Self, content))
    /\ UNCHANGED <<started, nonLogVars>>

AppendScriptExecution(code, output, is_error) ==
    /\ CanAppend(2, 3)
    /\ Becomes("append_script_execution",
               AppendScriptExecutionOn(Self, code, output, is_error))
    /\ UNCHANGED <<started, nonLogVars>>

\* lines 356-380
LoadSession(id) ==
    /\ LET r == LoadSessionFrom(files, id)
       IN  result' = [op |-> "load_session", arg |-> id,
                      raised |-> r.raised, value |-> r.value]
    /\ UNCHANGED <<session_id, session_file, parent_uuid, files, uuids, started,
                   written, nonLogVars>>

\* lines 382-432
ListSessions ==
    /\ LET r == ListSessionsFrom(files)
       IN  result' = [op |-> "list_sessions", arg |-> 0,
                      raised |-> r.raised, value |-> r.value]
    /\ UNCHANGED <<session_id, session_file, parent_uuid, files, uuids, started,
                   written, nonLogVars>>

\* a MessageHistory used on its own: no call of the core in progress
InitHistory ==
    /\ max_turns = MaxTurnsCap
    /\ verbose = FALSE
    /\ history = TRUE
    /\ script_executor = "default"
    /\ sys_stdout = "console"
    /\ worker = NoWorker
    /\ form = NoForm
    /\ LogInit
    /\ CoreInit

NextHistory ==
    \/ StartNewSession
    \/ \E u \in UserInputs : AppendUserMessage(u)
    \/ AppendAssistantMessage(HistoryText)
    \/ AppendToolUse("Read", <<"f">>, <<>>)
    \/ AppendToolResult(GivenId, <<"o">>, FALSE)
    \/ AppendThinking(<<"h">>)
    \/ AppendSystemMessage(<<"s">>)
    \/ \E r \in HistoryResults : AppendScriptExecution(<<"x">>, r.output, r.is_error)
    \/ \E id \in 1..MaxSessions : LoadSession(id)
    \/ ListSessions

SpecHistory == InitHistory /\ [][NextHistory]_vars

\* ------------------------------------------------------------------------
\* Claims on the session files
\* ------------------------------------------------------------------------
\* the entries of a file as a reader finds them
EntriesOf(f) == Parsed(ParsedLines(files[f]))

\* each entry of es but the first names the entry before it as its parent,
\* the first names none
Chained(es) ==
    \A i \in DOMAIN es :
        es[i].parentUuid = (IF i = 1 THEN 0 ELSE es[i - 1].uuid)

\* C22: after any sequence of start_new_session and appends, in every
\* session file the first entry has parentUuid null and every later entry
\* has the uuid of the entry written just before it in that file as its
\* parentUuid; every entry carries the id of the session that was current
\* when it was written, which is the session its file is named after, so
\* the first entry appended after start_new_session has parentUuid null.
C22_CausalChain ==
    /\ DOMAIN files = DOMAIN written
    /\ \A f \in DOMAIN files :
          /\ EntriesOf(f) = written[f]
          /\ Chained(written[f])
          /\ \A i \in DOMAIN written[f] : written[f][i].sessionId = f
          /\ f <= started
    /\ session_file # 0 =>
          /\ session_id = session_file
          /\ parent_uuid = (IF session_file \in DOMAIN written
                            THEN written[session_file][Len(written[session_file])].uuid
                            ELSE 0)

\* two entries in the first session, then a new session and its first entry
C22_Witness ==
    /\ DOMAIN files = {1, 2}
    /\ Len(written[1]) = 2
    /\ Len(written[2]) = 1
    /\ written[1][2].parentUuid = written[1][1].uuid
    /\ written[2][1].parentUuid = 0
    /\ written[2][1].uuid > written[1][2].uuid

\* C23: after N entries of any kinds have been appended to a fresh session,
\* load_session of that session returns exactly those N entries in the
\* order they were written, each naming the one before it as its parent
\* and the first naming none.
C23_RoundTrip ==
    result.op = "load_session" =>
        /\ ~result.raised
        /\ result.value = (IF result.arg \in DOMAIN written
                           THEN written[result.arg] ELSE <<>>)
        /\ Chained(result.value)

\* three entries of three kinds, one with a newline, a backslash and a
\* quote in its text, are read back
C23_Witness ==
    /\ result.op = "load_session"
    /\ Len(result.value) = 3
    /\ result.value[1].kind = "text"
    /\ result.value[1].text = HistoryText
    /\ result.value[2].kind = "tool_use"
    /\ result.value[3].kind = "tool_result"
    /\ result.value[3].text = <<"o", "\n">>

\* a step of one of the append operations
AppendStep ==
    \/ \E u \in UserInputs : AppendUserMessage(u)
    \/ AppendAssistantMessage(HistoryText)
    \/ AppendToolUse("Read", <<"f">>, <<>>)
    \/ AppendToolResult(GivenId, <<"o">>, FALSE)
    \/ AppendThinking(<<"h">>)
    \/ AppendSystemMessage(<<"s">>)
    \/ \E r \in HistoryResults : AppendScriptExecution(<<"x">>, r.output, r.is_error)

AppendOps ==
    { "append_user_message", "append_assistant_message", "append_tool_use",
      "append_tool_result", "append_thinking", "append_system_message",
      "append_script_execution" }

\* C24: every append operation (user message, assistant message, tool use,
\* tool result, thinking, system message, script execution) raises when no
\* session has been started, writes nothing to any file and leaves
\* _parent_uuid as it was.
C24_NoSessionRaises ==
    [][(session_file = 0 /\ result'.op \in AppendOps) =>
          /\ AppendStep
          /\ result'.raised
          /\ files' = files
          /\ parent_uuid' = parent_uuid]_vars

\* the script-execution helper has raised on a history without a session
C24_Witness ==
    /\ session_file = 0
    /\ result.op = "append_script_execution"
    /\ result.raised
    /\ files = <<>>
    /\ parent_uuid = 0

\* what a file holds, nothing for a file that does not exist
WrittenTo(w, f) == IF f \in DOMAIN w THEN w[f] ELSE <<>>

\* C25: append_script_execution(code, output, is_error) on a started
\* session adds exactly two entries to the session file, a tool use and
\* right after it a tool result, with the same generated id; the result
\* names the tool use as its parent and carries the given output and
\* is_error; the file and the object end as after append_tool_use followed
\* by append_tool_result with that id.
C25_ScriptExecutionIsPair ==
    [][\A r \in HistoryResults :
          (session_file # 0 /\ AppendScriptExecution(<<"x">>, r.output, r.is_error)) =>
             LET old == WrittenTo(written, session_file)
                 new == WrittenTo(written', session_file)
                 n == Len(old)
                 id == ToolUseId(Self)
                 h1 == AppendToolUseOn([Self EXCEPT !.uuids = @ + 1],
                                       "IDAPythonExec", <<"x">>, id)
                 h2 == AppendToolResultOn(h1, id, r.output, r.is_error)
             IN  /\ ~result'.raised
                 /\ Len(new) = n + 2
                 /\ SubSeq(new, 1, n) = old
                 /\ new[n + 1].kind = "tool_use"
                 /\ new[n + 1].name = "IDAPythonExec"
                 /\ new[n + 1].text = <<"x">>
                 /\ new[n + 2].kind = "tool_result"
                 /\ new[n + 1].id = new[n + 2].id
                 /\ new[n + 1].id # <<>>
                 /\ new[n + 2].parentUuid = new[n + 1].uuid
                 /\ new[n + 2].text = r.output
                 /\ new[n + 2].is_error = r.is_error
                 /\ files' = h2.files
                 /\ parent_uuid' = h2.parent_uuid]_vars

\* a script execution logged after a user message: an error with no output
C25_Witness ==
    /\ result.op = "append_script_execution"
    /\ ~result.raised
    /\ session_file \in DOMAIN written
    /\ Len(written[session_file]) = 3
    /\ written[session_file][1].kind = "text"
    /\ written[session_file][3].is_error
    /\ written[session_file][3].text = <<>>

\* s is the beginning of t
IsPrefix(s, t) == Len(s) <= Len(t) /\ SubSeq(t, 1, Len(s)) = s

\* C26: no operation changes what a session file already holds: every
\* file that exists goes on existing, and what it held is the beginning of
\* what it holds afterwards, across start_new_session too.
C26_AppendOnly ==
    [][\A f \in DOMAIN files :
          /\ f \in DOMAIN files'
          /\ IsPrefix(files[f], files'[f])]_vars

\* the second session is being written while the file of the first still
\* holds its two entries
C26_Witness ==
    /\ started = 2
    /\ session_file = 2
    /\ DOMAIN files = {1, 2}
    /\ Len(written[1]) = 2
    /\ result.op = "append_thinking"

\* ------------------------------------------------------------------------
\* Reading a session file that holds damaged lines
\* ------------------------------------------------------------------------
MaxLines == 3       \* lines of the session file that is read

\* two entries as append_user_message and append_tool_result write them
ReadEntries ==
    { [uuid |-> 1, parentUuid |-> 0, sessionId |-> 1, type |-> "user",
       kind |-> "text", name |-> "", id |-> <<>>, text |-> <<"u">>,
       is_error |-> FALSE],
      [uuid |-> 2, parentUuid |-> 1, sessionId |-> 1, type |-> "user",
       kind |-> "tool_result", name |-> "", id |-> GivenId,
       text |-> <<"o", "\n">>, is_error |-> FALSE] }

\* the lines a file may hold: an entry as written; the beginning of an
\* entry (a write cut short); text that is no JSON; bytes that are no
\* UTF-8; a line of blanks
ReadLines ==
    { [good |-> TRUE, tokens |-> Dump(e), entry |-> <<e>>] : e \in ReadEntries }
    \cup
    { [good |-> FALSE, tokens |-> t, entry |-> <<>>] :
        t \in { <<"{", "1", "null", "1", "user">>, <<"#">>, <<"{", BadByte>>,
                <<" ">> } }

\* the content of a file of these lines, and the entries of its good lines
RECURSIVE ContentOf(_)
ContentOf(ls) ==
    IF ls = <<>> THEN <<>> ELSE Head(ls).tokens \o <<"\n">> \o ContentOf(Tail(ls))

RECURSIVE GoodOf(_)
GoodOf(ls) == IF ls = <<>> THEN <<>> ELSE Head(ls).entry \o GoodOf(Tail(ls))

\* ida_chat_cli.py lines 201-234: the sessions run_transcript_command
\* gathers; a file is left out when reading it or parsing one of its lines
\* raises
GatherSessionsFrom(fs) ==
    LET ids == Descending({ f \in DOMAIN fs :
                   /\ ~Undecodable(fs[f])
                   /\ \A i \in DOMAIN ParsedLines(fs[f]) :
                         \/ ParsedLines(fs[f])[i].ok
                         \/ "blank" \in DOMAIN ParsedLines(fs[f])[i] })
    IN  [i \in DOMAIN ids |->
           LET entries == Parsed(ParsedLines(fs[ids[i]]))
           IN  [id |-> ids[i], count |-> Len(entries),
                first_msg |-> FirstUserMessage(entries)]]

\* ida_chat_cli.py lines 194-234
TranscriptGather ==
    /\ result' = [op |-> "run_transcript_command", arg |-> 0, raised |-> FALSE,
                  value |-> GatherSessionsFrom(files)]
    /\ UNCHANGED <<session_id, session_file, parent_uuid, files, uuids, started,
                   written, nonLogVars>>

\* a new MessageHistory over a directory that holds one session file
InitRead ==
    /\ max_turns = MaxTurnsCap
    /\ verbose = FALSE
    /\ history = TRUE
    /\ script_executor = "default"
    /\ sys_stdout = "console"
    /\ worker = NoWorker
    /\ form = NoForm
    /\ CoreInit
    /\ binary_path = <<DefaultBinary>>
    /\ session_dir = <<GetSessionDir(DefaultBinary)>>
    /\ session_id = 0
    /\ session_file = 0
    /\ parent_uuid = 0
    /\ uuids = 2
    /\ started = 1
    /\ result = NoResult
    /\ \E n \in 0..MaxLines : \E ls \in [1..n -> ReadLines] :
          /\ files = (1 :> ContentOf(ls))
          /\ written = (1 :> GoodOf(ls))

NextRead ==
    \/ \E id \in 1..MaxSessions : LoadSession(id)
    \/ ListSessions
    \/ TranscriptGather

SpecRead == InitRead /\ [][NextRead]_vars

\* C27: for a session file of N well-formed entry lines and any number of
\* lines that cannot be read as an entry, anywhere in the file,
\* load_session returns the N entries in file order and list_sessions
\* reports message_count N; neither raises.
C27_CorruptLineTolerance ==
    /\ (result.op = "load_session" /\ result.arg = 1) =>
          /\ ~result.raised
          /\ result.value = written[1]
    /\ result.op = "list_sessions" =>
          /\ ~result.raised
          /\ Len(result.value) = 1
          /\ result.value[1].message_count = Len(written[1])

\* the lines of a file that are neither blank nor an entry
UnparseableLines(f) ==
    { i \in DOMAIN ParsedLines(files[f]) :
        /\ ~ParsedLines(files[f])[i].ok
        /\ "blank" \notin DOMAIN ParsedLines(files[f])[i] }

\* C28: the sessions gathered by the transcript command include a file
\* that holds one unparseable line among well-formed lines, with the
\* well-formed lines counted.
C28_TranscriptSkipsLines ==
    (/\ result.op = "run_transcript_command"
     /\ written[1] # <<>>
     /\ ~Undecodable(files[1])
     /\ Cardinality(UnparseableLines(1)) = 1) =>
        /\ Len(result.value) = 1
        /\ result.value[1].id = 1
        /\ result.value[1].count = Len(written[1])

\* ------------------------------------------------------------------------
\* Session directories: MessageHistory.__init__ over two binaries
\* ------------------------------------------------------------------------
MaxPath == 3          \* characters of a binary path

\* the separators, the underscore and an ordinary character
PathAlphabet == Separators \cup {"_", "a"}

BinaryPaths == UNION { [1..n -> PathAlphabet] : n \in 1..MaxPath }

\* lines 37-38: the constructor keeps the path and derives the directory
NewMessageHistory(i) ==
    /\ session_dir[i] = <<>>
    /\ session_dir' = [session_dir EXCEPT ![i] = GetSessionDir(binary_path[i])]
    /\ UNCHANGED <<binary_path, form, max_turns, verbose, history, script_executor,
                   client, cancelled, pc, loopVars, respVars, obsVars, endVars,
                   cancelWindow, procVars, logVars>>

\* two binaries, no MessageHistory constructed for either yet
InitEncode ==
    /\ max_turns = MaxTurnsCap
    /\ verbose = FALSE
    /\ history = TRUE
    /\ script_executor = "default"
    /\ sys_stdout = "console"
    /\ worker = NoWorker
    /\ form = NoForm
    /\ CoreInit
    /\ session_id = 0
    /\ session_file = 0
    /\ parent_uuid = 0
    /\ files = <<>>
    /\ uuids = 0
    /\ started = 0
    /\ written = <<>>
    /\ result = NoResult
    /\ binary_path \in [1..2 -> BinaryPaths]
    /\ session_dir = <<<<>>, <<>>>>

NextEncode == \E i \in 1..2 : NewMessageHistory(i)

SpecEncode == InitEncode /\ [][NextEncode]_vars

\* C31: the MessageHistory objects of two different binary paths have
\* different session directories.
C31_DistinctDirectories ==
    \A i, k \in 1..2 :
        ( /\ session_dir[i] # <<>>
          /\ session_dir[k] # <<>>
          /\ binary_path[i] # binary_path[k] )
        => session_dir[i] # session_dir[k]

\* ------------------------------------------------------------------------
\* Termination: calls whose streams end with their result message and whose
\* executions return
\* ------------------------------------------------------------------------
\* the steps of a call in progress
TermStep ==
    \/ LoopCancelled
    \/ LoopTurnStartIn(TRUE)
    \/ LoopExit
    \/ Query
    \/ CallRecvToolUse
    \/ CallRecvText
    \/ CallRecvResult
    \/ NotifyScriptCode
    \/ \E out \in Outputs : RunScript(out)
    \/ FinishResponse
    \/ PostLoop

NextTerm ==
    \/ Connect
    \/ RequestCancel
    \/ \E u \in UserInputs : ProcessMessage(u)
    \/ TermStep

\* the coroutine of the call is resumed whenever the transport or the
\* executor has something for it
SpecTerm == InitCall /\ [][NextTerm]_vars /\ WF_vars(TermStep)

\* the call is over: it returned, and it stopped because the agent was done,
\* the turns were used up, or the cancellation was observed
Terminated ==
    /\ pc = "idle"
    /\ outcome = "returned"
    /\ (obs.done \/ obs.maxTurnErrors = 1 \/ obs.cancelNotices = 1)

\* C33: when every response ends with its result message and every
\* execution returns, a process_message call sends at most max_turns
\* queries and ends, by the agent being done, by the turns being used up or
\* by cancellation, whatever max_turns >= 0 is.
C33_Termination ==
    /\ [](Len(queries) <= max_turns)
    /\ (pc # "idle") ~> Terminated

C33_Witness ==
    /\ Terminated
    /\ max_turns = MaxTurnsCap
    /\ Len(queries) = max_turns
    /\ obs.maxTurnErrors = 1
    /\ obs.execs = max_turns

\* ------------------------------------------------------------------------
\* Tool invocations: known tools with and without their field, other tools
\* ------------------------------------------------------------------------
ToolInvocations ==
    { ToolUseBlock("Read", [file_path |-> "f"]),
      ToolUseBlock("Read", [offset |-> "1"]),
      ToolUseBlock("Grep", [pattern |-> "p"]),
      ToolUseBlock("Glob", [pattern |-> "g"]),
      ToolUseBlock("Glob", [path |-> "d"]),
      ToolUseBlock("Task", [description |-> "t"]),
      ToolUseBlock("Bash", [command |-> "c"]) }

NextTools ==
    \/ Connect
    \/ \E u \in UserInputs : ProcessMessage(u)
    \/ LoopTurnStart
    \/ LoopExit
    \/ Query
    \/ \E b \in ToolInvocations : RecvToolUse(b)
    \/ RecvText(TextBlock(<<"a">>))
    \/ RecvResult
    \/ FinishResponse
    \/ PostLoop

SpecTools == InitCall /\ [][NextTools]_vars

\* the field a tool is summarised by, "" for a tool that has none
KnownField(name) ==
    CASE name = "Read" -> "file_path"
      [] name \in {"Grep", "Glob"} -> "pattern"
      [] name = "Task" -> "description"
      [] OTHER -> ""

\* the tool-use notifications and the tool-use blocks of the turn, in order
ToolEvents == SelectSeq(sink, LAMBDA e : e.ev = "tool_use")
ToolInvoked == SelectSeq(stream, LAMBDA b : b.kind = "tool")

\* C34: the details given to on_tool_use are the tool's known field when
\* the input has it, and the raw dump of the input when no known field
\* applies: a tool without a known field, or a known tool whose input lacks
\* the field.
C34_ToolSummary ==
    /\ Len(ToolEvents) = Len(ToolInvoked)
    /\ \A k \in DOMAIN ToolInvoked :
          LET b == ToolInvoked[k]
          IN  /\ ToolEvents[k].name = b.name
              /\ ToolEvents[k].details =
                    IF KnownField(b.name) \in DOMAIN b.input
                    THEN <<b.input[KnownField(b.name)]>>
                    ELSE RawDump(b.input)

\* ------------------------------------------------------------------------
\* Feedback: responses with the same fragments under different prose and
\* tool invocations
\* ------------------------------------------------------------------------
FeedbackResponses ==
    { << TextBlock(<<"a">>) >>,
      << TextBlock(<<OPEN, "x", CLOSE>>) >>,
      << TextBlock(<<"b", OPEN, " ", "y", CLOSE, " ">>) >>,
      << ToolUseBlock("Read", [file_path |-> "f"]),
         TextBlock(<<"a", OPEN, "x", CLOSE>>) >>,
      << TextBlock(<<OPEN, "x", CLOSE>>), TextBlock(<<OPEN, "y", CLOSE>>) >>,
      << ToolUseBlock("Grep", [pattern |-> "p"]),
         TextBlock(<<OPEN, "x", CLOSE, "b", OPEN, "y", CLOSE>>) >> }

FeedbackNextBlocks ==
    { r[Len(stream) + 1] :
        r \in { q \in FeedbackResponses : /\ Len(stream) < Len(q)
                                          /\ SubSeq(q, 1, Len(stream)) = stream } }

NextFeedback ==
    \/ Connect
    \/ \E u \in UserInputs : ProcessMessage(u)
    \/ LoopTurnStartIn(TRUE)
    \/ LoopExit
    \/ Query
    \/ \E b \in FeedbackNextBlocks : RecvToolUse(b)
    \/ \E b \in FeedbackNextBlocks : RecvText(b)
    \/ stream \in FeedbackResponses /\ RecvResult
    \/ NotifyScriptCode
    \/ \E out \in Outputs : RunScript(out)
    \/ FinishResponse
    \/ PostLoop

SpecFeedback == InitCall /\ [][NextFeedback]_vars

\* the input that follows a turn, written from the fragment outputs alone
NextInputOf(outputs) ==
    <<"Script output:", "\n", "\n">> \o
    (IF Len(outputs) = 1 THEN outputs[1]
     ELSE Join(<<"\n", "\n">>, Labelled(outputs)))

\* C35: the input sent on the next turn is a function of the sequence of
\* fragment outputs of the current turn alone, so two runs whose turn gave
\* the same outputs under different prose and different tool invocations
\* send the same input.
C35_InputFromOutputsOnly ==
    [][FeedbackStep => queries'[turn] = NextInputOf(script_outputs)]_vars

\* a second query after a turn with prose, a tool invocation and a fragment
C35_Witness ==
    /\ pc = "recv"
    /\ turn = 2
    /\ queries[2] = NextInputOf(<< <<"o">> >>)
    /\ \E i \in DOMAIN sink : sink[i].ev = "tool_use"
    /\ \E i \in DOMAIN sink : sink[i].ev = "text"

\* ------------------------------------------------------------------------
\* Extraction: every text over the delimiters, a letter and a space, in one
\* text block
\* ------------------------------------------------------------------------
MaxText == 5          \* tokens of a response text

TextAlphabet == {OPEN, CLOSE, "a", " "}

Texts == UNION { [1..n -> TextAlphabet] : n \in 0..MaxText }

NextExtract ==
    \/ Connect
    \/ \E u \in UserInputs : ProcessMessage(u)
    \/ LoopTurnStart
    \/ LoopExit
    \/ Query
    \/ \E t \in Texts : stream = <<>> /\ RecvText(TextBlock(t))
    \/ stream # <<>> /\ RecvResult
    \/ NotifyScriptCode
    \/ RunScript(<<"o">>)
    \/ FinishResponse
    \/ PostLoop

\* a core that answers each message in one turn
InitExtract ==
    /\ max_turns = 1
    /\ verbose = FALSE
    /\ history = TRUE
    /\ script_executor = "default"
    /\ sys_stdout = "console"
    /\ worker = NoWorker
    /\ form = NoForm
    /\ LogInit
    /\ CoreInit

SpecExtract == InitExtract /\ [][NextExtract]_vars

Least(S) == CHOOSE x \in S : \A y \in S : x <= y

\* the open/close pairs of a text, left to right: each pair opens at the
\* first open delimiter after the pair before it that has a close delimiter
\* somewhere after it, and closes at the first close delimiter after its
\* open delimiter
RECURSIVE PairsFrom(_, _)
PairsFrom(text, from) ==
    LET opens == { p \in from..Len(text) :
                     /\ text[p] = OPEN
                     /\ \E q \in (p + 1)..Len(text) : text[q] = CLOSE }
    IN  IF opens = {} THEN <<>>
        ELSE LET p == Least(opens)
                 q == Least({ c \in (p + 1)..Len(text) : text[c] = CLOSE })
             IN  << <<p, q>> >> \o PairsFrom(text, q + 1)

Pairs(text) == PairsFrom(text, 1)

\* what lies between the delimiters of each pair
Contents(text) ==
    LET ps == Pairs(text)
    IN  [k \in 1..Len(ps) |-> SubSeq(text, ps[k][1] + 1, ps[k][2] - 1)]

\* the text without the spans of its pairs, delimiters included
RECURSIVE KeepFrom(_, _, _)
KeepFrom(text, ps, i) ==
    IF i > Len(text) THEN <<>>
    ELSE (IF \E k \in DOMAIN ps : ps[k][1] <= i /\ i <= ps[k][2]
          THEN <<>> ELSE <<text[i]>>) \o KeepFrom(text, ps, i + 1)

Display(text) == Strip(KeepFrom(text, Pairs(text), 1))

\* the text notifications of the turn
ShownText == SelectSeq(sink, LAMBDA e : e.ev = "text")

\* C36: for every text of a response the fragments extracted are the
\* contents of its non-overlapping open/close pairs, left to right, first
\* match and shortest match, and the text shown is the original without the
\* spans of those pairs, trimmed; a text without a complete pair gives no
\* fragment and is shown trimmed.
C36_ExtractionAndDisplay ==
    stream # <<>> =>
        LET text == stream[1].text
        IN  /\ ShownText = IF Display(text) = <<>> THEN <<>>
                           ELSE <<EvText(Display(text))>>
            /\ pc \in {"exec", "run"} => scripts_found = Contents(text)
            /\ (pc \in {"exec", "run"} /\ Pairs(text) = <<>>) =>
                  /\ scripts_found = <<>>
                  /\ Display(text) = Strip(text)

\* nested delimiters: the pair opens at the first open delimiter and closes
\* at the first close delimiter, and the second close delimiter is shown
C36_Witness ==
    /\ pc = "exec"
    /\ stream[1].text = <<OPEN, OPEN, "a", CLOSE, CLOSE>>
    /\ scripts_found = << <<OPEN, "a">> >>
    /\ ShownText = <<EvText(<<CLOSE>>)>>

\* ------------------------------------------------------------------------
\* The plugin: the IDAChatForm on the UI thread, the AgentWorker on its own
\* thread, the core with the main-thread executor and the session log
\* ------------------------------------------------------------------------
\* everything but the worker, the form, the history and how a call ended
plugRest == <<max_turns, verbose, history, script_executor, pathVars, client,
              cancelled, pc, loopVars, respVars, obsVars, retval,
              cancelWindow, sys_stdout>>

\* the k-th message the user types
PluginMessage(k) == <<"m", ToStr(k)>>

\* the agent answers with prose only, or with a fragment that prints and a
\* fragment that fails
PluginResponses ==
    { TextBlock(<<"a">>),
      TextBlock(<<OPEN>> \o ScriptPrint \o <<CLOSE, OPEN>> \o ScriptFail \o
                <<CLOSE>>) }

\* a signal emitted on the worker thread is queued for the UI thread
Emit(f, signal) == [f EXCEPT !.signals = Append(@, signal)]

\* --- the UI thread ---

\* lines 1343-1349: the thinking signal is delivered
FormOnThinking ==
    /\ form.ui = "idle"
    /\ form.signals # <<>>
    /\ Head(form.signals) = "thinking"
    /\ form' = [form EXCEPT !.signals = Tail(@), !.is_processing = TRUE,
                            !.input_enabled = FALSE]
    /\ UNCHANGED <<plugRest, outcome, logVars, worker>>

\* lines 1452-1456: the finished signal is delivered
FormOnFinished ==
    /\ form.ui = "idle"
    /\ form.signals # <<>>
    /\ Head(form.signals) = "finished"
    /\ form' = [form EXCEPT !.signals = Tail(@), !.is_processing = FALSE,
                            !.input_enabled = TRUE]
    /\ UNCHANGED <<plugRest, outcome, logVars, worker>>

\* lines 1322-1325: the connection_ready signal is delivered
FormOnConnectionReady ==
    /\ form.ui = "idle"
    /\ form.signals # <<>>
    /\ Head(form.signals) = "connection_ready"
    /\ form' = [form EXCEPT !.signals = Tail(@), !.input_enabled = TRUE]
    /\ UNCHANGED <<plugRest, outcome, logVars, worker>>

\* lines 1612-1626 and 839-843: the user submits a message, the form shows
\* it and hands it to the worker, which stores it in its slot
FormSendMessage ==
    /\ form.ui = "idle"
    /\ form.input_enabled
    /\ form.worker
    /\ ~form.is_processing
    /\ Len(form.sent) < MaxMessages
    /\ LET text == PluginMessage(Len(form.sent) + 1)
       IN  /\ form' = [form EXCEPT
                         !.sent = Append(@, [text |-> text,
                                             after |-> form.cleared])]
           /\ worker' = [worker EXCEPT
                           !.pending = <<text>>,
                           !.sent = @ + 1,
                           !.thread = IF @ = "off" THEN "start" ELSE @]
    /\ UNCHANGED <<plugRest, outcome, logVars>>

\* the clear button starting the new session itself, on the UI thread
FormOnClear_Direct ==
    /\ form.ui = "idle"
    /\ form.worker
    /\ ~worker.should_new_session
    /\ started + (IF worker.should_connect THEN 1 ELSE 0) < MaxSessions
    /\ StartNewSessionOn
    /\ form' = [form EXCEPT !.input_enabled = TRUE, !.cleared = started]
    /\ UNCHANGED <<plugRest, outcome, worker>>

\* lines 1642-1657 and 835-837: the clear button; a new session is
\* requested of the worker and the input is enabled
FormOnClear ==
    /\ form.ui = "idle"
    /\ form.worker
    /\ ~worker.should_new_session
    /\ started + (IF worker.should_connect THEN 1 ELSE 0) < MaxSessions
    /\ worker' = [worker EXCEPT !.should_new_session = TRUE]
    /\ form' = [form EXCEPT !.input_enabled = TRUE, !.cleared = started]
    /\ UNCHANGED <<plugRest, outcome, logVars>>

\* lines 1659-1663 and 824-827: the widget is closed; the disconnect is
\* requested and the UI thread waits for the worker thread
FormOnClose ==
    /\ form.ui = "idle"
    /\ form.worker
    /\ worker' = [worker EXCEPT !.should_disconnect = TRUE, !.running = FALSE]
    /\ form' = [form EXCEPT !.ui = "wait"]
    /\ UNCHANGED <<plugRest, outcome, logVars>>

\* lines 1663-1664: the wait returns because the worker thread has ended
WaitEnds ==
    /\ form.ui = "wait"
    /\ worker.thread = "off"
    /\ form' = [form EXCEPT !.ui = "closed", !.worker = FALSE]
    /\ UNCHANGED <<plugRest, outcome, logVars, worker>>

\* lines 1663-1664: the wait returns after its 5000 ms.  The time runs out
\* only while the worker thread is held up in execute_sync, which nothing
\* but the UI thread can end
WaitGivesUp ==
    /\ form.ui = "wait"
    /\ worker.thread # "off"
    /\ form.requests # <<>>
    /\ form' = [form EXCEPT !.ui = "closed", !.worker = FALSE,
                            !.gave_up = TRUE]
    /\ UNCHANGED <<plugRest, outcome, logVars, worker>>

\* lines 1255-1265: the UI thread, back in its event loop, runs the
\* run_script that execute_sync queued
MainThreadRunScript ==
    /\ form.ui # "wait"
    /\ form.requests # <<>>
    /\ form' = [form EXCEPT
                  !.requests = Tail(@),
                  !.reply = ExecuteOnMainThread(Head(form.requests)).value,
                  !.ran = @ + 1]
    /\ UNCHANGED <<plugRest, outcome, logVars, worker>>

\* --- the worker thread outside the call ---

\* lines 857-869: a session is started, the core is created and its connect
\* is awaited
AsyncRunConnect ==
    /\ worker.thread = "start"
    /\ worker.should_connect
    /\ StartNewSessionOn
    /\ worker' = [worker EXCEPT !.should_connect = FALSE, !.core = TRUE,
                                !.thread = "connect"]
    /\ UNCHANGED <<plugRest, outcome, form>>

\* line 871: the connection is there
AsyncConnectionReady ==
    /\ worker.thread = "connect"
    /\ client = "connected"
    /\ worker' = [worker EXCEPT !.thread = "loop"]
    /\ form' = Emit(form, "connection_ready")
    /\ UNCHANGED <<plugRest, outcome, logVars>>

\* lines 872-874: connect raised, and _async_run returns
AsyncConnectionError ==
    /\ worker.thread = "connect"
    /\ client = "created"
    /\ worker' = [worker EXCEPT !.thread = "off"]
    /\ UNCHANGED <<plugRest, outcome, logVars, form>>

\* line 857: the thread was started by send_message, nothing to connect
AsyncEnterLoop ==
    /\ worker.thread = "start"
    /\ ~worker.should_connect
    /\ worker' = [worker EXCEPT !.thread = "loop"]
    /\ UNCHANGED <<plugRest, outcome, logVars, form>>

\* line 877: while self._running
AsyncLoopTest ==
    /\ worker.thread = "loop"
    /\ worker' = [worker EXCEPT
                    !.thread = IF worker.running THEN "check_session"
                               ELSE "exit"]
    /\ UNCHANGED <<plugRest, outcome, logVars, form>>

\* lines 879-881: a requested new session is started
AsyncCheckNewSession ==
    /\ worker.thread = "check_session"
    /\ IF worker.should_new_session
       THEN /\ StartNewSessionOn
            /\ worker' = [worker EXCEPT !.should_new_session = FALSE,
                                        !.thread = "check_pending"]
       ELSE /\ worker' = [worker EXCEPT !.thread = "check_pending"]
            /\ UNCHANGED logVars
    /\ UNCHANGED <<plugRest, outcome, form>>

\* lines 883-884: the slot is tested and read
AsyncReadPending ==
    /\ worker.thread = "check_pending"
    /\ worker' = IF worker.pending # <<>>
                 THEN [worker EXCEPT !.message = worker.pending[1],
                                     !.thread = "clear_pending"]
                 ELSE [worker EXCEPT !.thread = "check_disconnect"]
    /\ UNCHANGED <<plugRest, outcome, logVars, form>>

\* lines 885-887: the slot is emptied and process_message is called
AsyncClearPending ==
    /\ worker.thread = "clear_pending"
    /\ worker' = [worker EXCEPT !.pending = <<>>, !.taken = @ + 1,
                                !.thread = "call"]
    /\ form' = [form EXCEPT !.emitted = 0, !.posted = 0, !.ran = 0]
    /\ outcome' = "none"
    /\ UNCHANGED <<plugRest, logVars>>

\* lines 888-890: the call is over; the finished signal
AsyncAfterCall ==
    /\ worker.thread = "call"
    /\ pc = "idle"
    /\ outcome # "none"
    /\ worker' = [worker EXCEPT
                    !.errors = IF outcome = "raised" THEN @ + 1 ELSE @,
                    !.finished = @ + 1,
                    !.thread = "check_disconnect"]
    /\ form' = [Emit(form, "finished") EXCEPT
                  !.processed = Append(@, worker.message)]
    /\ UNCHANGED <<plugRest, outcome, logVars>>

\* lines 892-897: leave on a disconnect request, else sleep and go round
AsyncCheckDisconnect ==
    /\ worker.thread = "check_disconnect"
    /\ worker' = [worker EXCEPT
                    !.thread = IF worker.should_disconnect THEN "exit"
                               ELSE "loop"]
    /\ UNCHANGED <<plugRest, outcome, logVars, form>>

\* lines 899-901: the core is disconnected and the thread ends
AsyncDisconnect ==
    /\ worker.thread = "exit"
    /\ client' = IF worker.core THEN "none" ELSE client
    /\ worker' = [worker EXCEPT !.thread = "off"]
    /\ UNCHANGED <<max_turns, verbose, history, script_executor, pathVars,
                   cancelled, pc, loopVars, respVars, obsVars, retval,
                   cancelWindow, sys_stdout, outcome, logVars, form>>

\* --- the worker thread inside process_message ---

InCall == worker.thread = "call"

\* lines 757-758: the thinking notification of the turn goes out as a signal
EmitThinking ==
    /\ InCall
    /\ pc = "query"
    /\ form.emitted < obs.turnStarts
    /\ form' = [Emit(form, "thinking") EXCEPT !.emitted = @ + 1]
    /\ UNCHANGED <<plugRest, outcome, logVars, worker>>

\* execute_sync returning as soon as the request is queued
ExecuteSyncReturns_NoWait ==
    /\ InCall
    /\ pc = "run"
    /\ form.posted = obs.execs + 1
    /\ RunScript(<<>>)

\* lines 1267-1268: execute_sync queues run_script for the UI thread
ExecuteSync ==
    /\ InCall
    /\ pc = "run"
    /\ form.posted = obs.execs
    /\ form' = [form EXCEPT !.requests = Append(@, ScriptCode(j)),
                            !.posted = @ + 1]
    /\ UNCHANGED <<plugRest, outcome, logVars, worker>>

\* lines 1267-1268 and core lines 332-340: run_script has run, execute_sync
\* returns and the executor returns result[0]
ExecuteSyncReturns ==
    /\ InCall
    /\ pc = "run"
    /\ form.ran = obs.execs + 1
    /\ RunScript(form.reply)

\* the steps of the core under the worker
PluginCall ==
    \/ CallDue /\ ProcessMessage(worker.message)
    \/ InCall /\ LoopTurnStartIn(TRUE)
    \/ InCall /\ LoopExit
    \/ InCall /\ form.emitted = obs.turnStarts /\ client = "connected" /\ Query
    \/ InCall /\ form.emitted = obs.turnStarts /\ client # "connected"
              /\ QueryRaises
    \/ InCall /\ stream = <<>> /\ \E b \in PluginResponses : RecvText(b)
    \/ InCall /\ stream # <<>> /\ RecvResult
    \/ InCall /\ NotifyScriptCode
    \/ InCall /\ FinishResponse
    \/ InCall /\ PostLoop

PluginUI ==
    \/ FormOnConnectionReady
    \/ FormOnThinking
    \/ FormOnFinished
    \/ FormSendMessage
    \/ FormOnClear
    \/ FormOnClose
    \/ WaitEnds
    \/ WaitGivesUp
    \/ MainThreadRunScript

PluginWorker ==
    \/ AsyncRunConnect
    \/ worker.thread = "connect" /\ client = "none" /\ Connect
    \/ worker.thread = "connect" /\ client = "none" /\ ConnectFails
    \/ AsyncConnectionReady
    \/ AsyncConnectionError
    \/ AsyncEnterLoop
    \/ AsyncLoopTest
    \/ AsyncCheckNewSession
    \/ AsyncReadPending
    \/ AsyncClearPending
    \/ AsyncAfterCall
    \/ AsyncCheckDisconnect
    \/ AsyncDisconnect
    \/ EmitThinking
    \/ ExecuteSync
    \/ ExecuteSyncReturns
    \/ PluginCall

\* lines 1236-1243 and 1270-1297: OnCreate has run _init_agent: the history
\* and the worker exist and the connection has been requested
InitPlugin ==
    /\ max_turns \in 1..MaxTurnsCap
    /\ verbose = FALSE
    /\ history = TRUE
    /\ script_executor = "main_thread"
    /\ sys_stdout = "console"
    /\ worker = [NoWorker EXCEPT !.should_connect = TRUE, !.thread = "start"]
    /\ form = [NoForm EXCEPT !.worker = TRUE]
    /\ LogInit
    /\ CoreInit

NextPlugin == PluginUI \/ PluginWorker

SpecPlugin == InitPlugin /\ [][NextPlugin]_vars

\* ------------------------------------------------------------------------
\* Claims on the plugin
\* ------------------------------------------------------------------------
\* C32: a worker has at most one process_message call in progress, and
\* within a call the fragments run one at a time: at most one run_script
\* is queued or running, only while the core waits for the executor at that
\* fragment, and each has returned before the next fragment is shown, the
\* response is finished or the next query is sent.
C32_OneAtATime ==
    /\ worker.taken - worker.finished \in {0, 1}
    /\ pc # "idle" => (InCall /\ worker.taken = worker.finished + 1)
    /\ Len(form.requests) <= 1
    /\ form.requests # <<>> =>
          /\ InCall
          /\ pc = "run"
          /\ form.requests = <<ScriptCode(j)>>
          /\ form.posted = obs.execs + 1
          /\ form.ran = obs.execs
    /\ (InCall /\ pc \notin {"idle", "run"}) =>
          /\ form.posted = obs.execs
          /\ form.ran = obs.execs
          /\ Len(script_outputs) = j - 1

\* the second fragment of a response queued after the first has returned
C32_Witness ==
    /\ InCall
    /\ pc = "run"
    /\ j = 2
    /\ form.requests = <<ScriptFail>>
    /\ script_outputs = << <<"o">> >>
    /\ worker.taken = 2

\* the messages process_message has been called with
Occurrences(m, q) == Cardinality({ i \in DOMAIN q : q[i] = m })

Handled(m) ==
    Occurrences(m, form.processed) +
    (IF InCall /\ ~CallDue /\ worker.message = m THEN 1 ELSE 0)

\* the message is in the slot, or read from it and about to be processed
Waiting(m) ==
    \/ worker.pending = <<m>>
    \/ worker.thread = "clear_pending" /\ worker.message = m
    \/ CallDue /\ worker.message = m

\* C37: every message the form accepted is either waiting for the worker or
\* has been given to process_message exactly once: none is overwritten in
\* the slot, none is dropped, none is processed twice.
C37_NoMessageLost ==
    \A k \in DOMAIN form.sent :
        LET m == form.sent[k].text
        IN  (IF Waiting(m) THEN 1 ELSE 0) + Handled(m) = 1

\* the number of sessions started when the chat was last cleared before the
\* message was submitted
ClearedBefore(m) ==
    LET k == CHOOSE i \in DOMAIN form.sent : form.sent[i].text = m
    IN  form.sent[k].after

\* C38: the log entries of a message submitted after a clear go to a session
\* started after that clear.
C38_EntriesAfterClear ==
    (InCall /\ pc # "idle" /\ hist # <<>>) =>
        session_id > ClearedBefore(worker.message)

\* C39: from the moment the worker takes a message to the end of its
\* process_message call the current session and its file do not change, and
\* log entries are written only inside such a call, with a session started,
\* also when a new session is requested during the call.
C39_OneSessionPerCall ==
    [][ /\ InCall => (session_id' = session_id /\ session_file' = session_file)
        /\ hist' # hist => (InCall /\ session_file # 0) ]_vars

\* a new session requested while the call is writing its entries
C39_Witness ==
    /\ InCall
    /\ pc = "run"
    /\ worker.should_new_session
    /\ form.is_processing
    /\ Len(hist) >= 2
    /\ session_id = 1

\* C40: when OnClose has returned, its wait ended because the worker thread
\* had ended and not on its timeout, also when the worker had a script
\* queued for the UI thread while OnClose was waiting.
C40_CleanShutdown ==
    form.ui = "closed" =>
        /\ worker.thread = "off"
        /\ ~form.gave_up

====
